---------------------------- MODULE Spec2Model ----------------------------
(***************************************************************************)
(* recipe-duck: the markdown-to-record parser, the record-to-blocks        *)
(* compiler and the publish call of NotionRecipeClient, the formatter, the *)
(* print-URL search of URLRecipeExtractor and the Lambda email handler.    *)
(*                                                                         *)
(* A string is a sequence of tokens.  Punctuation, blanks, line breaks and *)
(* digits are one-character tokens, and so are the letters of a unit      *)
(* abbreviation; a word (a section name, a label, a unit's full name, a   *)
(* piece of recipe text) is one token.  The regular expressions of the     *)
(* source are computed on these sequences character class by character     *)
(* class: \s is a blank or a line break, "." is anything but a line break, *)
(* [A-Z] is a token that starts with an upper-case letter.                 *)
(***************************************************************************)
EXTENDS Integers, Sequences, FiniteSets, TLC

VARIABLES
    markdown,       \* the argument of parse_recipe_markdown / push_recipe
    verbose,        \* the verbose argument of push_recipe
    pc,             \* position of the call in progress
    recipe_data,    \* the parsed record
    properties,     \* the property set built by push_recipe
    blocks,         \* the block list built by _build_page_content
    calls,          \* the pages.create calls made so far, in order
    responses,      \* what the publishing service answered to them, in order
    stderr,         \* the messages printed to sys.stderr by the except branch
    result,         \* what the call returned or raised
    config,         \* the FormattingConfig the formatters share (DEFAULT_CONFIG)
    frames,         \* the local variables of each RecipeFormatter call in progress
    print_url_cache, \* URLRecipeExtractor._print_url_cache: domain -> pattern type
    extractor,      \* the local variables of the find_best_url call in progress
    outcomes,       \* what the find_best_url calls made so far returned, in order
    validation,     \* the local variables of the _validate_print_url call in progress
    handler,        \* the local variables of the lambda_handler invocation
    effects         \* the oracle, publisher and S3 calls the invocation made, in order

\* the state of URLRecipeExtractor and of the Lambda invocation
webVars == <<print_url_cache, extractor, outcomes, validation>>
lambdaVars == <<handler, effects>>

vars == <<markdown, verbose, pc, recipe_data, properties, blocks, calls, responses,
          stderr, result, config, frames, webVars, lambdaVars>>

\* no extractor call and no invocation in progress
WebIdle ==
    /\ print_url_cache = <<>>
    /\ extractor = [pc |-> "idle"]
    /\ outcomes = <<>>
    /\ validation = [pc |-> "idle"]

LambdaIdle ==
    /\ handler = [pc |-> "idle"]
    /\ effects = <<>>

-----------------------------------------------------------------------------
(* Bounds *)

MaxLines == 4          \* lines of a free-form document
MaxBlank == 1          \* blank lines between a heading and what follows it
MaxBodyLines == 3      \* lines of a section body handed to the compiler
MaxFormatLines == 3    \* lines of a document handed to format
MaxRenumberLines == 4  \* lines of a document handed to renumber_instructions
MaxQuantityLen == 5    \* characters of a quantity token handed to _normalize_units
MaxConcurrentLines == 2 \* lines of the first of two concurrent documents
MaxCalls == 2          \* find_best_url calls on one extractor
MaxParts == 2          \* parts of the message handed to lambda_handler
MaxPieces == 4         \* pieces of a text handed to _normalize_fractions
Passes == 2            \* applications of _normalize_fractions to its own result

-----------------------------------------------------------------------------
(* Strings *)

NL == "\n"
SP == " "

Max(S) == CHOOSE x \in S : \A y \in S : y <= x
Min(S) == CHOOSE x \in S : \A y \in S : x <= y

\* \s of the regular expressions, and the characters str.strip() removes
IsSpace(c) == c \in {SP, NL}

\* [A-Z]: the tokens whose first character is an upper-case letter
UpperTokens == {"Ingredients", "Directions", "Instructions", "Notes", "Links",
                "Sources", "Photos", "Nutrition", "Ingredient", "Measurement",
                "Method", "Soup", "Mix", "Thai", "Greek", "Prep Time:",
                "Cook Time:", "Total Time:", "Servings:", "Cuisine:",
                "Protein:", "Course:", "Method:", "Effort:", "Rating:"}
IsUpper(c) == c \in UpperTokens

\* \d
Digits == {"0", "1", "2", "3", "4", "5", "6", "7", "8", "9"}

\* s[p] when p is an index of s, and a token that is in no character class otherwise
At(s, p) == IF p \in 1..Len(s) THEN s[p] ELSE "<eos>"

\* number of consecutive tokens of s from index p on that are in the set Cs
RunIn(s, p, Cs) ==
    Max({0} \cup {k \in 1..(Len(s) - p + 1) : \A i \in p..(p + k - 1) : s[i] \in Cs})

\* number of consecutive tokens of s from index p on that are not in the set Cs
RunNotIn(s, p, Cs) ==
    Max({0} \cup {k \in 1..(Len(s) - p + 1) : \A i \in p..(p + k - 1) : s[i] \notin Cs})

\* str.strip()
Strip(s) ==
    LET keep == {i \in 1..Len(s) : ~IsSpace(s[i])}
    IN  IF keep = {} THEN <<>> ELSE SubSeq(s, Min(keep), Max(keep))

\* str.lstrip("#")
LStripHash(s) == SubSeq(s, RunIn(s, 1, {"#"}) + 1, Len(s))

\* str.startswith
StartsWith(s, pre) == Len(s) >= Len(pre) /\ SubSeq(s, 1, Len(pre)) = pre

\* the substring test `sub in s`
Contains(s, sub) ==
    \E i \in 1..(Len(s) - Len(sub) + 1) : SubSeq(s, i, i + Len(sub) - 1) = sub

\* str.split(sep) for a one-token separator
RECURSIVE Split(_, _)
Split(s, sep) ==
    LET hits == {i \in 1..Len(s) : s[i] = sep}
    IN  IF hits = {} THEN <<s>>
        ELSE <<SubSeq(s, 1, Min(hits) - 1)>> \o Split(SubSeq(s, Min(hits) + 1, Len(s)), sep)

\* sep.join(parts)
RECURSIVE Join(_, _)
Join(parts, sep) ==
    IF parts = <<>> THEN <<>>
    ELSE IF Len(parts) = 1 THEN parts[1]
    ELSE parts[1] \o sep \o Join(Tail(parts), sep)

\* [f(x) for x in xs if keep]
RECURSIVE SelectNonEmpty(_)
SelectNonEmpty(xs) ==
    IF xs = <<>> THEN <<>>
    ELSE (IF xs[1] # <<>> THEN <<xs[1]>> ELSE <<>>) \o SelectNonEmpty(Tail(xs))

\* ^ under re.MULTILINE
AtLineStart(s, p) == p = 1 \/ At(s, p - 1) = NL


-----------------------------------------------------------------------------
(* parse_recipe_markdown *)

\* r'^#\s+(.+)$': the lengths \s+ can take after the '#' at p so that at
\* least one character is left for (.+) before the end of the line
NameSplits(s, p) ==
    {k \in 1..RunIn(s, p + 1, {SP, NL}) : RunNotIn(s, p + 1 + k, {NL}) >= 1}

\* the positions where r'^#\s+(.+)$' matches under re.MULTILINE
NameMatches(s) ==
    {p \in 1..Len(s) : AtLineStart(s, p) /\ s[p] = "#" /\ NameSplits(s, p) # {}}

\* name_match.group(1) if name_match else "Untitled Recipe"
RecipeName(s) ==
    IF NameMatches(s) = {} THEN <<"Untitled Recipe">>
    ELSE LET p == Min(NameMatches(s))
             k == Max(NameSplits(s, p))       \* \s+ is greedy
         IN  SubSeq(s, p + 1 + k, p + k + RunNotIn(s, p + 1 + k, {NL}))

PropertyLabels == <<"Cuisine:", "Protein:", "Course:", "Method:", "Effort:",
                    "Rating:", "Cook Time:">>

\* The groups of the properties pattern from label number i on, q being the
\* index right after that label; the empty sequence when the pattern fails.
\*   label i < 7:  \s*([^|]+)\s*\|\s*<next label>
\*   label 7:      \s*([^*]+)\*
\* A group cannot cross its closing character, so it ends at the first one;
\* however \s* and the group share the text before it, .strip() gives the
\* same value.
RECURSIVE PropertyGroups(_, _, _)
PropertyGroups(s, q, i) ==
    IF i = Len(PropertyLabels)
    THEN LET n == RunNotIn(s, q, {"*"})
         IN  IF n >= 1 /\ At(s, q + n) = "*"
             THEN <<Strip(SubSeq(s, q, q + n - 1))>>
             ELSE <<>>
    ELSE LET n == RunNotIn(s, q, {"|"})
             w == RunIn(s, q + n + 1, {SP, NL})
         IN  IF n >= 1 /\ At(s, q + n) = "|" /\ At(s, q + n + 1 + w) = PropertyLabels[i + 1]
             THEN LET rest == PropertyGroups(s, q + n + w + 2, i + 1)
                  IN  IF Len(rest) = 0 THEN <<>>
                      ELSE <<Strip(SubSeq(s, q, q + n - 1))>> \o rest
             ELSE <<>>

\* properties_match: the seven stripped groups of the leftmost match, or <<>>
PropertiesMatch(s) ==
    LET starts == {p \in 1..Len(s) :
                      /\ s[p] = "*"
                      /\ At(s, p + 1) = PropertyLabels[1]
                      /\ Len(PropertyGroups(s, p + 2, 1)) > 0}
    IN  IF starts = {} THEN <<>> ELSE PropertyGroups(s, Min(starts) + 2, 1)

\* properties_match.group(i).strip() if properties_match else ""
PropertyField(s, i) == IF Len(PropertiesMatch(s)) = 0 THEN <<>> ELSE PropertiesMatch(s)[i]

\* r'\*\*<label>\*\*\s*([^\n*]+)': the lengths \s* can take at q, right after
\* the bold label, so that the group has at least one character
MetaSplits(s, q) ==
    {k \in 0..RunIn(s, q, {SP, NL}) : RunNotIn(s, q + k, {NL, "*"}) >= 1}

\* <label>_match.group(1).strip() if <label>_match else ""
MetaField(s, label) ==
    LET starts == {p \in 1..Len(s) :
                      /\ <<At(s, p), At(s, p + 1), At(s, p + 2), At(s, p + 3), At(s, p + 4)>>
                            = <<"*", "*", label, "*", "*">>
                      /\ MetaSplits(s, p + 5) # {}}
    IN  IF starts = {} THEN <<>>
        ELSE LET q == Min(starts) + 5
                 k == Max(MetaSplits(s, q))
             IN  Strip(SubSeq(s, q + k, q + k + RunNotIn(s, q + k, {NL, "*"}) - 1))

\* r'##\s+<name>\s*\n' matched at h: the index of the line break that ends
\* the match (\s* is greedy, so it is the last line break of the blank run
\* after the name), or 0 when there is no match at h
HeadingEnd(s, h, name) ==
    LET w == RunIn(s, h + 2, {SP, NL})
        r == RunIn(s, h + 3 + w, {SP, NL})
        nls == {e \in (h + 3 + w)..(h + 2 + w + r) : s[e] = NL}
    IN  IF /\ At(s, h) = "#" /\ At(s, h + 1) = "#"
           /\ w >= 1
           /\ At(s, h + 2 + w) = name
           /\ nls # {}
        THEN Max(nls) ELSE 0

\* the lookahead (?=^---|^##\s[A-Z]) at index t
Terminator(s, t) ==
    /\ AtLineStart(s, t)
    /\ \/ At(s, t) = "-" /\ At(s, t + 1) = "-" /\ At(s, t + 2) = "-"
       \/ At(s, t) = "#" /\ At(s, t + 1) = "#" /\ IsSpace(At(s, t + 2)) /\ IsUpper(At(s, t + 3))

\* the section body of lines 83-87 (and 90-117 for the other names):
\* the lazy pattern with the lookahead first, the greedy one to the end of
\* the string when the first finds nothing; "" when neither matches
SectionBody(s, name) ==
    LET heads == {h \in 1..Len(s) : HeadingEnd(s, h, name) > 0}
        ends(h) == {t \in (HeadingEnd(s, h, name) + 1)..Len(s) : Terminator(s, t)}
        bounded == {h \in heads : ends(h) # {}}
    IN  IF bounded # {}
        THEN LET h == Min(bounded)
             IN  Strip(SubSeq(s, HeadingEnd(s, h, name) + 1, Min(ends(h)) - 1))
        ELSE IF heads # {}
        THEN Strip(SubSeq(s, HeadingEnd(s, Min(heads), name) + 1, Len(s)))
        ELSE <<>>

RecipeKeys == {"name", "cuisine", "protein", "course", "method", "effort",
               "rating", "cook_time_prop", "prep_time", "cook_time",
               "total_time", "servings", "ingredients", "directions", "notes",
               "links", "nutrition", "photos"}

parse_recipe_markdown(s) ==
    [name           |-> RecipeName(s),
     cuisine        |-> PropertyField(s, 1),
     protein        |-> PropertyField(s, 2),
     course         |-> PropertyField(s, 3),
     method         |-> PropertyField(s, 4),
     effort         |-> PropertyField(s, 5),
     rating         |-> PropertyField(s, 6),
     cook_time_prop |-> PropertyField(s, 7),
     prep_time      |-> MetaField(s, "Prep Time:"),
     cook_time      |-> MetaField(s, "Cook Time:"),
     total_time     |-> MetaField(s, "Total Time:"),
     servings       |-> MetaField(s, "Servings:"),
     ingredients    |-> SectionBody(s, "Ingredients"),
     directions     |-> SectionBody(s, "Directions"),
     notes          |-> SectionBody(s, "Notes"),
     links          |-> SectionBody(s, "Links"),
     nutrition      |-> SectionBody(s, "Nutrition"),
     photos         |-> SectionBody(s, "Photos")]

-----------------------------------------------------------------------------
(* _build_page_content *)

Heading2(t)     == [type |-> "heading_2", text |-> t, table_width |-> 0, children |-> <<>>]
Heading3(t)     == [type |-> "heading_3", text |-> t, table_width |-> 0, children |-> <<>>]
Paragraph(t)    == [type |-> "paragraph", text |-> t, table_width |-> 0, children |-> <<>>]
NumberedItem(t) == [type |-> "numbered_list_item", text |-> t, table_width |-> 0, children |-> <<>>]
Divider         == [type |-> "divider", text |-> <<>>, table_width |-> 0, children |-> <<>>]

\* the cells of the header row, lines 373-375
TableHeader == <<<<"Ingredient">>, <<"Measurement">>, <<"Method">>>>

\* the table block of lines 360-393: width 3, the header row, one row per data row
TableBlock(table_rows) ==
    [type |-> "table", text |-> <<>>, table_width |-> 3,
     children |-> <<TableHeader>> \o table_rows]

\* `"Ingredient" in line`: a substring test, so the word Ingredients has it too
HasIngredient(line) == \E i \in 1..Len(line) : line[i] \in {"Ingredient", "Ingredients"}

\* `"---" in line`
HasRule(line) == Contains(line, <<"-", "-", "-">>)

\* [p.strip() for p in row_line.split("|")[1:-1]]
RowParts(row_line) ==
    LET parts == Split(row_line, "|")
    IN  [k \in 1..(Len(parts) - 2) |-> Strip(parts[k + 1])]

\* the inner while of lines 338-351 from index j: the index where it stops
RECURSIVE TableStop(_, _)
TableStop(lines, j) ==
    IF j > Len(lines) THEN j
    ELSE LET row_line == Strip(lines[j])
         IN  IF row_line = <<>> \/ ~StartsWith(row_line, <<"|">>) THEN j
             ELSE TableStop(lines, j + 1)

\* table_rows collected by that loop over lines[j..stop-1]
RECURSIVE TableRows(_, _, _)
TableRows(lines, j, stop) ==
    IF j >= stop THEN <<>>
    ELSE LET parts == RowParts(Strip(lines[j]))
         IN  (IF Len(parts) >= 3 THEN <<<<parts[1], parts[2], parts[3]>>>> ELSE <<>>)
             \o TableRows(lines, j + 1, stop)

\* the while loop of lines 310-396 from index i
RECURSIVE IngredientBlocks(_, _)
IngredientBlocks(lines, i) ==
    IF i > Len(lines) THEN <<>>
    ELSE LET line == Strip(lines[i])
         IN  IF StartsWith(line, <<"#", "#", "#">>)
             THEN <<Heading3(Strip(LStripHash(line)))>> \o IngredientBlocks(lines, i + 1)
             ELSE IF StartsWith(line, <<"|">>) /\ HasIngredient(line)
             THEN LET j == IF i + 1 <= Len(lines) /\ HasRule(lines[i + 1]) THEN i + 2 ELSE i + 1
                      stop == TableStop(lines, j)
                      table_rows == TableRows(lines, j, stop)
                  IN  (IF table_rows # <<>> THEN <<TableBlock(table_rows)>> ELSE <<>>)
                      \o IngredientBlocks(lines, stop)
             ELSE IngredientBlocks(lines, i + 1)

\* the direction line kept with its numbering
StripOrdinalKept(line) == line

\* re.sub(r'^\d+\.\s*', '', direction_line)
StripOrdinal(line) ==
    LET d == RunIn(line, 1, Digits)
    IN  IF d >= 1 /\ At(line, d + 1) = "."
        THEN SubSeq(line, d + 2 + RunIn(line, d + 2, {SP, NL}), Len(line))
        ELSE line

\* the for loop of lines 417-444 over the stripped, non-empty lines
RECURSIVE DirectionBlocks(_)
DirectionBlocks(direction_lines) ==
    IF direction_lines = <<>> THEN <<>>
    ELSE LET direction_line == direction_lines[1]
             direction_text == StripOrdinal(direction_line)
             rest == DirectionBlocks(Tail(direction_lines))
         IN  IF direction_line = <<"-", "-", "-">> THEN rest
             ELSE IF StartsWith(direction_line, <<"#", "#", "#">>)
             THEN <<Heading3(Strip(LStripHash(direction_line)))>> \o rest
             ELSE IF Strip(direction_text) # <<>>
             THEN <<NumberedItem(direction_text)>> \o rest
             ELSE rest

\* [line.strip() for line in text.split("\n") if line.strip()]
StrippedLines(text) ==
    LET lines == Split(text, NL)
    IN  SelectNonEmpty([k \in 1..Len(lines) |-> Strip(lines[k])])

\* lines 296-403
IngredientsSection(r) ==
    IF r.ingredients # <<>>
    THEN <<Heading2(<<"Ingredients">>)>>
         \o IngredientBlocks(Split(r.ingredients, NL), 1)
         \o <<Divider>>
    ELSE <<>>

\* lines 405-451
DirectionsSection(r) ==
    IF r.directions # <<>>
    THEN <<Heading2(<<"Directions">>)>>
         \o DirectionBlocks(StrippedLines(r.directions))
         \o <<Divider>>
    ELSE <<>>

\* lines 453-541: a heading that is always there, a paragraph for a non-empty body
TextSection(title, body) ==
    <<Heading2(<<title>>)>> \o (IF body # <<>> THEN <<Paragraph(body)>> ELSE <<>>)

\* the template order with the last two sections exchanged
build_page_content_swapped(r) ==
    IngredientsSection(r)
    \o DirectionsSection(r)
    \o TextSection("Notes", r.notes) \o <<Divider>>
    \o TextSection("Links", r.links) \o <<Divider>>
    \o TextSection("Photos", r.photos) \o <<Divider>>
    \o TextSection("Nutrition", r.nutrition)

build_page_content(r) ==
    IngredientsSection(r)
    \o DirectionsSection(r)
    \o TextSection("Notes", r.notes) \o <<Divider>>
    \o TextSection("Links", r.links) \o <<Divider>>
    \o TextSection("Nutrition", r.nutrition) \o <<Divider>>
    \o TextSection("Photos", r.photos)

-----------------------------------------------------------------------------
(* config.py: FormattingConfig and DEFAULT_CONFIG *)

\* unit_normalizations in insertion order.  The dict literal writes the key
\* "c" twice ("cup", then the degree sign and "C"): the key keeps its first position and its
\* last value.
DefaultUnitNormalizations ==
    << <<<<"t", "b", "s", "p">>, <<"tablespoon">>>>,
       <<<<"t", "b", "s">>, <<"tablespoon">>>>,
       <<<<"T">>, <<"tablespoon">>>>,
       <<<<"t", "s", "p">>, <<"teaspoon">>>>,
       <<<<"t">>, <<"teaspoon">>>>,
       <<<<"c">>, <<"U+00B0", "C">>>>,
       <<<<"p", "t">>, <<"pint">>>>,
       <<<<"q", "t">>, <<"quart">>>>,
       <<<<"g", "a", "l">>, <<"gallon">>>>,
       <<<<"f", "l", " ", "o", "z">>, <<"fluid", " ", "ounce">>>>,
       <<<<"f", "l", ".", " ", "o", "z">>, <<"fluid", " ", "ounce">>>>,
       <<<<"m", "l">>, <<"milliliter">>>>,
       <<<<"l">>, <<"liter">>>>,
       <<<<"o", "z">>, <<"ounce">>>>,
       <<<<"l", "b">>, <<"pound">>>>,
       <<<<"l", "b", "s">>, <<"pound">>>>,
       <<<<"g">>, <<"gram">>>>,
       <<<<"k", "g">>, <<"kilogram">>>>,
       <<<<"m", "g">>, <<"milligram">>>>,
       <<<<"f">>, <<"U+00B0", "F">>>>,
       <<<<"U+00B0", "f">>, <<"U+00B0", "F">>>>,
       <<<<"U+00B0", "c">>, <<"U+00B0", "C">>>> >>

\* fraction_normalizations in insertion order; a character outside ASCII is
\* the token that names its code point ("U+00BD" is the one-half sign,
\* "U+00B0" the degree sign)
DefaultFractionNormalizations ==
    << <<<<"U+00BD">>, <<"1", "/", "2">>>>,
       <<<<"U+2153">>, <<"1", "/", "3">>>>,
       <<<<"U+2154">>, <<"2", "/", "3">>>>,
       <<<<"U+00BC">>, <<"1", "/", "4">>>>,
       <<<<"U+00BE">>, <<"3", "/", "4">>>>,
       <<<<"U+2155">>, <<"1", "/", "5">>>>,
       <<<<"U+2156">>, <<"2", "/", "5">>>>,
       <<<<"U+2157">>, <<"3", "/", "5">>>>,
       <<<<"U+2158">>, <<"4", "/", "5">>>>,
       <<<<"U+2159">>, <<"1", "/", "6">>>>,
       <<<<"U+215A">>, <<"5", "/", "6">>>>,
       <<<<"U+2150">>, <<"1", "/", "7">>>>,
       <<<<"U+215B">>, <<"1", "/", "8">>>>,
       <<<<"U+215C">>, <<"3", "/", "8">>>>,
       <<<<"U+215D">>, <<"5", "/", "8">>>>,
       <<<<"U+215E">>, <<"7", "/", "8">>>>,
       <<<<"U+2151">>, <<"1", "/", "9">>>>,
       <<<<"U+2152">>, <<"1", "/", "1", "0">>>>,
       <<<<"0", ".", "5">>, <<"1", "/", "2">>>>,
       <<<<"0", ".", "3", "3">>, <<"1", "/", "3">>>>,
       <<<<"0", ".", "6", "7">>, <<"2", "/", "3">>>>,
       <<<<"0", ".", "2", "5">>, <<"1", "/", "4">>>>,
       <<<<"0", ".", "7", "5">>, <<"3", "/", "4">>>> >>

\* unit_plurals in insertion order
DefaultUnitPlurals ==
    << <<<<"tablespoon">>, <<"tablespoons">>>>,
       <<<<"teaspoon">>, <<"teaspoons">>>>,
       <<<<"cup">>, <<"cups">>>>,
       <<<<"pint">>, <<"pints">>>>,
       <<<<"quart">>, <<"quarts">>>>,
       <<<<"gallon">>, <<"gallons">>>>,
       <<<<"fluid", " ", "ounce">>, <<"fluid", " ", "ounces">>>>,
       <<<<"ounce">>, <<"ounces">>>>,
       <<<<"pound">>, <<"pounds">>>>,
       <<<<"gram">>, <<"grams">>>>,
       <<<<"kilogram">>, <<"kilograms">>>>,
       <<<<"milliliter">>, <<"milliliters">>>>,
       <<<<"liter">>, <<"liters">>>>,
       <<<<"clove">>, <<"cloves">>>>,
       <<<<"can">>, <<"cans">>>>,
       <<<<"package">>, <<"packages">>>>,
       <<<<"slice">>, <<"slices">>>>,
       <<<<"piece">>, <<"pieces">>>> >>

\* FormattingConfig(...) with the given flags and the default dicts
FormattingConfig(numbered, bullets, pluralize) ==
    [unit_normalizations        |-> DefaultUnitNormalizations,
     fraction_normalizations    |-> DefaultFractionNormalizations,
     enforce_numbered_steps     |-> numbered,
     enforce_ingredient_bullets |-> bullets,
     pluralize_units            |-> pluralize,
     unit_plurals               |-> DefaultUnitPlurals]

\* DEFAULT_CONFIG = FormattingConfig()
DEFAULT_CONFIG == FormattingConfig(TRUE, TRUE, TRUE)

\* d.get(key), or the default when d has no such key; d is a sequence of pairs
DictGet(d, key, default) ==
    LET hits == {k \in 1..Len(d) : d[k][1] = key}
    IN  IF hits = {} THEN default ELSE d[Min(hits)][2]

\* `key in d`
DictHas(d, key) == \E k \in 1..Len(d) : d[k][1] = key

-----------------------------------------------------------------------------
(* formatter.py: the normalizers *)

\* str.replace(old, new): the occurrences of old from left to right, not overlapping
RECURSIVE Replace(_, _, _)
Replace(s, old, new) ==
    LET hits == {i \in 1..(Len(s) - Len(old) + 1) : SubSeq(s, i, i + Len(old) - 1) = old}
    IN  IF hits = {} THEN s
        ELSE SubSeq(s, 1, Min(hits) - 1) \o new
             \o Replace(SubSeq(s, Min(hits) + Len(old), Len(s)), old, new)

\* the for loop of lines 128-129 from entry k of the dict on
RECURSIVE ReplaceFrom(_, _, _)
ReplaceFrom(d, k, text) ==
    IF k > Len(d) THEN text
    ELSE ReplaceFrom(d, k + 1, Replace(text, d[k][1], d[k][2]))

normalize_fractions(cfg, text) == ReplaceFrom(cfg.fraction_normalizations, 1, text)

\* str.lower() on the letters a unit is written with
LowerCase == [T |-> "t", B |-> "b", S |-> "s", P |-> "p", C |-> "c", Q |-> "q",
              G |-> "g", A |-> "a", L |-> "l", F |-> "f", O |-> "o", Z |-> "z",
              M |-> "m", K |-> "k"]
Lower(c) == IF c \in DOMAIN LowerCase THEN LowerCase[c] ELSE c
LowerAll(s) == [i \in 1..Len(s) |-> Lower(s[i])]

\* the tokens that are not \w
NonWord == {SP, NL, "/", ".", "-", "*", "#", ",", "|", ")", "(", ":", "U+00B0", "<eos>"}
IsWord(c) == c \notin NonWord

\* \b between s[x-1] and s[x]
Boundary(s, x) == IsWord(At(s, x - 1)) # IsWord(At(s, x))

\* the value of a run of digits
DigitValue == [c \in Digits |->
    CASE c = "0" -> 0 [] c = "1" -> 1 [] c = "2" -> 2 [] c = "3" -> 3 [] c = "4" -> 4
      [] c = "5" -> 5 [] c = "6" -> 6 [] c = "7" -> 7 [] c = "8" -> 8 [] c = "9" -> 9]
RECURSIVE IntValue(_)
IntValue(ds) ==
    IF ds = <<>> THEN 0 ELSE 10 * IntValue(SubSeq(ds, 1, Len(ds) - 1)) + DigitValue[ds[Len(ds)]]

AllDigits(ds) == \A i \in 1..Len(ds) : ds[i] \in Digits

\* Fraction(quantity) > 1 for a token with a "/" in it; Fraction takes
\* "digits/digits" only and raises ValueError otherwise, ZeroDivisionError for
\* a zero denominator: both are caught at line 174 and leave needs_plural unset
FractionAboveOne(quantity) ==
    LET parts == Split(quantity, "/")
    IN  /\ Len(parts) = 2
        /\ parts[1] # <<>> /\ AllDigits(parts[1])
        /\ parts[2] # <<>> /\ AllDigits(parts[2])
        /\ IntValue(parts[2]) # 0
        /\ IntValue(parts[1]) > IntValue(parts[2])

\* float(quantity) > 1 for a token without "/": digits with at most one ".";
\* float raises ValueError otherwise
FloatAboveOne(quantity) ==
    LET parts == Split(quantity, ".")
    IN  /\ Len(parts) <= 2
        /\ \/ IntValue(parts[1]) > 1
           \/ /\ IntValue(parts[1]) = 1
              /\ Len(parts) = 2
              /\ IntValue(parts[2]) > 0

\* needs_plural for every quantity but "1"
NeedsPluralNotOne(quantity) == quantity # <<"1">>

\* lines 161-176: needs_plural, False when the token cannot be parsed
NeedsPlural(quantity) ==
    IF \E i \in 1..Len(quantity) : quantity[i] = "/"
    THEN FractionAboveOne(quantity)
    ELSE FloatAboveOne(quantity)

\* replace_unit, lines 149-178: the text a match is replaced by
replace_unit(cfg, quantity, group2) ==
    LET unit_abbr == LowerAll(group2)
        full_unit == DictGet(cfg.unit_normalizations, unit_abbr, unit_abbr)
        plural    == IF cfg.pluralize_units /\ NeedsPlural(quantity)
                        /\ DictHas(cfg.unit_plurals, full_unit)
                     THEN DictGet(cfg.unit_plurals, full_unit, full_unit)
                     ELSE full_unit
    IN  quantity \o <<SP>> \o plural

\* the alternative abbr of the pattern matches at u, ignoring case
AbbrAt(s, u, abbr) == \A i \in 1..Len(abbr) : Lower(At(s, u + i - 1)) = Lower(abbr[i])

\* where `abbr s? \b` ends when it matches at u (the greedy s? first), or 0
AbbrEnd(s, u, abbr) ==
    LET e == u + Len(abbr)
    IN  IF ~AbbrAt(s, u, abbr) THEN 0
        ELSE IF Lower(At(s, e)) = "s" /\ Boundary(s, e + 1) THEN e + 1
        ELSE IF Boundary(s, e) THEN e
        ELSE 0

\* the match of the pattern of lines 145-147 that starts at p, or none.  No
\* abbreviation starts with a digit, "/", "." or a blank, so a shorter
\* quantity or a shorter \s* never lets the rest match.
UnitMatch(cfg, s, p) ==
    LET q == RunIn(s, p, Digits \cup {"/", "."})
        u == p + q + RunIn(s, p + q, {SP, NL})
        d == cfg.unit_normalizations
        alts == {k \in 1..Len(d) : AbbrEnd(s, u, d[k][1]) > 0}
    IN  IF At(s, p) \in Digits /\ Boundary(s, p) /\ alts # {}
        THEN [found |-> TRUE, quantity |-> SubSeq(s, p, p + q - 1),
              group2 |-> SubSeq(s, u, u + Len(d[Min(alts)][1]) - 1),
              end |-> AbbrEnd(s, u, d[Min(alts)][1])]
        ELSE [found |-> FALSE, quantity |-> <<>>, group2 |-> <<>>, end |-> p]

\* re.sub(pattern, replace_unit, result, flags=re.IGNORECASE) from index p on
RECURSIVE SubUnits(_, _, _)
SubUnits(cfg, s, p) ==
    IF p > Len(s) THEN <<>>
    ELSE LET m == UnitMatch(cfg, s, p)
         IN  IF m.found
             THEN replace_unit(cfg, m.quantity, m.group2) \o SubUnits(cfg, s, m.end)
             ELSE <<s[p]>> \o SubUnits(cfg, s, p + 1)

normalize_units(cfg, text) == SubUnits(cfg, text, 1)

-----------------------------------------------------------------------------
(* formatter.py: RecipeFormatter.format *)

\* str.lstrip()
LStrip(s) == SubSeq(s, RunIn(s, 1, {SP, NL}) + 1, Len(s))

\* the bullet added without looking for one that is already there
EnsureBulletAlways(cfg, line) ==
    LET stripped == LStrip(line)
    IN  IF cfg.enforce_ingredient_bullets /\ stripped # <<>>
        THEN <<"-", SP>> \o stripped
        ELSE line

\* _format_ingredient_line, lines 76-83: the bullet
EnsureBullet(cfg, line) ==
    LET stripped == LStrip(line)
    IN  IF cfg.enforce_ingredient_bullets /\ ~StartsWith(stripped, <<"-">>)
        THEN IF stripped # <<>> /\ ~StartsWith(stripped, <<"*">>)
             THEN <<"-", SP>> \o stripped
             ELSE IF StartsWith(stripped, <<"*">>)
             THEN <<"-", SP>> \o LStrip(Tail(stripped))
             ELSE line
        ELSE line

\* _format_ingredient_line, lines 66-91
format_ingredient_line(cfg, line) ==
    normalize_units(cfg, normalize_fractions(cfg, EnsureBullet(cfg, line)))

\* re.match(r"^\d+[\.\)]\s", stripped)
NumberedStart(stripped) ==
    LET d == RunIn(stripped, 1, Digits)
    IN  d >= 1 /\ At(stripped, d + 1) \in {".", ")"} /\ IsSpace(At(stripped, d + 2))

\* the instruction line given the ordinal "1." when it has none
format_instruction_line_numbering(cfg, line) ==
    LET stripped == LStrip(line)
    IN  IF cfg.enforce_numbered_steps /\ stripped # <<>>
        THEN IF ~NumberedStart(stripped)
             THEN <<"1", ".", SP>>
                  \o (IF StartsWith(stripped, <<"-">>) \/ StartsWith(stripped, <<"*">>)
                      THEN LStrip(Tail(stripped))
                      ELSE stripped)
             ELSE stripped
        ELSE line

\* _format_instruction_line, lines 93-116
format_instruction_line(cfg, line) ==
    LET stripped == LStrip(line)
    IN  IF cfg.enforce_numbered_steps /\ stripped # <<>>
        THEN IF ~NumberedStart(stripped)
             THEN IF StartsWith(stripped, <<"-">>) \/ StartsWith(stripped, <<"*">>)
                  THEN LStrip(Tail(stripped))
                  ELSE stripped
             ELSE stripped
        ELSE line

IngredientsHeading  == <<"#", "#", SP, "Ingredients">>
InstructionsHeading == <<"#", "#", SP, "Instructions">>

\* the local variables of a call that has not started
NewFrame(op, text) ==
    [op |-> op, markdown |-> text, pc |-> "start", lines |-> <<>>, i |-> 1,
     in_ingredients |-> FALSE, in_instructions |-> FALSE, step_number |-> 1,
     out_lines |-> <<>>, emitted |-> <<>>, sections |-> 0, result |-> <<>>]

\* lines 31-34 and 192-195: the split and the initial values of the locals
EnterLoop(f) ==
    [f EXCEPT !.pc = "loop", !.lines = Split(f.markdown, NL), !.i = 1,
              !.in_ingredients = FALSE, !.in_instructions = FALSE,
              !.step_number = 1, !.out_lines = <<>>]

\* the locals of a call, with the section flags kept on the shared formatter
LocalsOnFormatter(fs, c) ==
    [fs[c] EXCEPT !.in_ingredients = fs[1].in_ingredients,
                  !.in_instructions = fs[1].in_instructions,
                  !.step_number = fs[1].step_number]

\* the locals a call works on: names of its own frame, lines 31-34 and 192-195
Locals(fs, c) == fs[c]

\* the section tests that leave a '###' line in its section
SectionFlagsKeepingSubheading(f, stripped) ==
    IF StartsWith(stripped, IngredientsHeading) THEN <<TRUE, FALSE>>
    ELSE IF StartsWith(stripped, InstructionsHeading) THEN <<FALSE, TRUE>>
    ELSE IF StartsWith(stripped, <<"#">>) /\ ~StartsWith(stripped, <<"#", "#", "#">>)
    THEN <<FALSE, FALSE>>
    ELSE <<f.in_ingredients, f.in_instructions>>

\* in_ingredients and in_instructions after the tests of lines 38-52
SectionFlags(f, stripped) ==
    IF StartsWith(stripped, IngredientsHeading) THEN <<TRUE, FALSE>>
    ELSE IF StartsWith(stripped, InstructionsHeading) THEN <<FALSE, TRUE>>
    ELSE IF StartsWith(stripped, <<"#", "#">>) \/ StartsWith(stripped, <<"#">>)
    THEN <<FALSE, FALSE>>
    ELSE <<f.in_ingredients, f.in_instructions>>

\* the three branches that `continue`: each appends the line as it is
IsSectionLine(stripped) ==
    \/ StartsWith(stripped, IngredientsHeading)
    \/ StartsWith(stripped, InstructionsHeading)
    \/ StartsWith(stripped, <<"#", "#">>) \/ StartsWith(stripped, <<"#">>)

\* formatted_line, lines 55-60
FormattedLine(cfg, f, line) ==
    IF f.in_ingredients /\ Strip(line) # <<>> THEN format_ingredient_line(cfg, line)
    ELSE IF f.in_instructions /\ Strip(line) # <<>> THEN format_instruction_line(cfg, line)
    ELSE line

\* the iteration with blank lines skipped
FormatIterationSkippingBlank(cfg, f) ==
    LET line == f.lines[f.i]
        stripped == Strip(line)
        flags == SectionFlags(f, stripped)
    IN  IF stripped = <<>> THEN [f EXCEPT !.i = f.i + 1]
        ELSE [f EXCEPT !.in_ingredients = flags[1], !.in_instructions = flags[2],
                       !.out_lines = Append(f.out_lines,
                                            IF IsSectionLine(stripped) THEN line
                                            ELSE FormattedLine(cfg, f, line)),
                       !.i = f.i + 1]

\* one iteration of the for loop of format, lines 36-62
FormatIteration(cfg, f) ==
    LET line == f.lines[f.i]
        stripped == Strip(line)
        flags == SectionFlags(f, stripped)
    IN  [f EXCEPT !.in_ingredients = flags[1], !.in_instructions = flags[2],
                  !.out_lines = Append(f.out_lines,
                                       IF IsSectionLine(stripped) THEN line
                                       ELSE FormattedLine(cfg, f, line)),
                  !.i = f.i + 1]

\* format is called: lines 31-34
FormatCall(c) ==
    /\ frames[c].op = "format"
    /\ frames[c].pc = "start"
    /\ frames' = [frames EXCEPT ![c] = EnterLoop(Locals(frames, c))]
    /\ UNCHANGED <<markdown, verbose, pc, recipe_data, properties, blocks, calls,
                   responses, stderr, result, config, webVars, lambdaVars>>

\* one line of the document is formatted: lines 36-62
FormatLine(c) ==
    /\ frames[c].op = "format"
    /\ frames[c].pc = "loop"
    /\ frames[c].i <= Len(frames[c].lines)
    /\ frames' = [frames EXCEPT ![c] = FormatIteration(config, Locals(frames, c))]
    /\ UNCHANGED <<markdown, verbose, pc, recipe_data, properties, blocks, calls,
                   responses, stderr, result, config, webVars, lambdaVars>>

\* line 64: return "\n".join(formatted_lines)
FormatReturn(c) ==
    /\ frames[c].op = "format"
    /\ frames[c].pc = "loop"
    /\ frames[c].i > Len(frames[c].lines)
    /\ frames' = [frames EXCEPT ![c].result = Join(Locals(frames, c).out_lines, <<NL>>),
                                ![c].pc = "done"]
    /\ UNCHANGED <<markdown, verbose, pc, recipe_data, properties, blocks, calls,
                   responses, stderr, result, config, webVars, lambdaVars>>

-----------------------------------------------------------------------------
(* formatter.py: RecipeFormatter.renumber_instructions *)

\* str(n) for n >= 0
DigitChars == <<"0", "1", "2", "3", "4", "5", "6", "7", "8", "9">>
RECURSIVE IntToStr(_)
IntToStr(n) ==
    IF n < 10 THEN <<DigitChars[n + 1]>>
    ELSE IntToStr(n \div 10) \o <<DigitChars[(n % 10) + 1]>>

\* re.sub(r'^\d+[\.\)]\s*', '', stripped)
StripNumber(stripped) ==
    LET d == RunIn(stripped, 1, Digits)
    IN  IF d >= 1 /\ At(stripped, d + 1) \in {".", ")"}
        THEN SubSeq(stripped, d + 2 + RunIn(stripped, d + 2, {SP, NL}), Len(stripped))
        ELSE stripped

\* lines 220-221: a leading "- " is cut and the rest stripped
StripDash(content) ==
    IF StartsWith(content, <<"-", SP>>) THEN Strip(SubSeq(content, 3, Len(content)))
    ELSE content

\* content, lines 218-221
StepContent(stripped) == StripDash(StripNumber(stripped))

\* f"{step_number}. {content}"
StepLine(step_number, content) == IntToStr(step_number) \o <<".", SP>> \o content

\* lines 223-228: the blank line, the numbered line, the counter; `emitted`
\* records which output line the step is, and in which section
EmitStep(f, content) ==
    LET blank == IF f.step_number > 1 THEN <<<<>>>> ELSE <<>>
    IN  [f EXCEPT !.out_lines = f.out_lines \o blank \o <<StepLine(f.step_number, content)>>,
                  !.step_number = f.step_number + 1,
                  !.emitted = Append(f.emitted,
                                     [section |-> f.sections, number |-> f.step_number,
                                      source |-> f.i,
                                      at |-> Len(f.out_lines) + Len(blank) + 1])]

\* the iteration in which a '---' line does not end the instructions
RenumberIterationRuleInside(f) ==
    LET line == f.lines[f.i]
        stripped == Strip(line)
        g == [f EXCEPT !.i = f.i + 1]
    IN  IF StartsWith(stripped, InstructionsHeading)
        THEN [g EXCEPT !.in_instructions = TRUE, !.step_number = 1,
                       !.sections = f.sections + 1, !.out_lines = Append(f.out_lines, line)]
        ELSE IF StartsWith(stripped, <<"#", "#">>) \/ StartsWith(stripped, <<"#">>)
        THEN [g EXCEPT !.in_instructions = FALSE, !.out_lines = Append(f.out_lines, line)]
        ELSE IF f.in_instructions /\ stripped # <<>>
        THEN IF StepContent(stripped) # <<>>
             THEN [EmitStep(f, StepContent(stripped)) EXCEPT !.i = f.i + 1]
             ELSE g
        ELSE [g EXCEPT !.out_lines = Append(f.out_lines, line)]

\* the iteration whose counter is not reset by the Instructions heading
RenumberIterationNoReset(f) ==
    LET line == f.lines[f.i]
        stripped == Strip(line)
        g == [f EXCEPT !.i = f.i + 1]
    IN  IF StartsWith(stripped, InstructionsHeading)
        THEN [g EXCEPT !.in_instructions = TRUE,
                       !.sections = f.sections + 1, !.out_lines = Append(f.out_lines, line)]
        ELSE IF StartsWith(stripped, <<"#", "#">>) \/ StartsWith(stripped, <<"#">>)
        THEN [g EXCEPT !.in_instructions = FALSE, !.out_lines = Append(f.out_lines, line)]
        ELSE IF stripped = <<"-", "-", "-">>
        THEN [g EXCEPT !.in_instructions = FALSE, !.out_lines = Append(f.out_lines, line)]
        ELSE IF f.in_instructions /\ stripped # <<>>
        THEN IF StepContent(stripped) # <<>>
             THEN [EmitStep(f, StepContent(stripped)) EXCEPT !.i = f.i + 1]
             ELSE g
        ELSE [g EXCEPT !.out_lines = Append(f.out_lines, line)]

\* one iteration of the for loop of renumber_instructions, lines 197-230;
\* `sections` counts the Instructions headings seen
RenumberIteration(f) ==
    LET line == f.lines[f.i]
        stripped == Strip(line)
        g == [f EXCEPT !.i = f.i + 1]
    IN  IF StartsWith(stripped, InstructionsHeading)
        THEN [g EXCEPT !.in_instructions = TRUE, !.step_number = 1,
                       !.sections = f.sections + 1, !.out_lines = Append(f.out_lines, line)]
        ELSE IF StartsWith(stripped, <<"#", "#">>) \/ StartsWith(stripped, <<"#">>)
        THEN [g EXCEPT !.in_instructions = FALSE, !.out_lines = Append(f.out_lines, line)]
        ELSE IF stripped = <<"-", "-", "-">>
        THEN [g EXCEPT !.in_instructions = FALSE, !.out_lines = Append(f.out_lines, line)]
        ELSE IF f.in_instructions /\ stripped # <<>>
        THEN IF StepContent(stripped) # <<>>
             THEN [EmitStep(f, StepContent(stripped)) EXCEPT !.i = f.i + 1]
             ELSE g
        ELSE [g EXCEPT !.out_lines = Append(f.out_lines, line)]

\* renumber_instructions is called: lines 192-195
RenumberCall(c) ==
    /\ frames[c].op = "renumber"
    /\ frames[c].pc = "start"
    /\ frames' = [frames EXCEPT ![c] = EnterLoop(Locals(frames, c))]
    /\ UNCHANGED <<markdown, verbose, pc, recipe_data, properties, blocks, calls,
                   responses, stderr, result, config, webVars, lambdaVars>>

\* one line of the document is renumbered: lines 197-230
RenumberLine(c) ==
    /\ frames[c].op = "renumber"
    /\ frames[c].pc = "loop"
    /\ frames[c].i <= Len(frames[c].lines)
    /\ frames' = [frames EXCEPT ![c] = RenumberIteration(Locals(frames, c))]
    /\ UNCHANGED <<markdown, verbose, pc, recipe_data, properties, blocks, calls,
                   responses, stderr, result, config, webVars, lambdaVars>>

\* line 232: return "\n".join(result_lines)
RenumberReturn(c) ==
    /\ frames[c].op = "renumber"
    /\ frames[c].pc = "loop"
    /\ frames[c].i > Len(frames[c].lines)
    /\ frames' = [frames EXCEPT ![c].result = Join(Locals(frames, c).out_lines, <<NL>>),
                                ![c].pc = "done"]
    /\ UNCHANGED <<markdown, verbose, pc, recipe_data, properties, blocks, calls,
                   responses, stderr, result, config, webVars, lambdaVars>>

-----------------------------------------------------------------------------
(* url_extractor.py: URLRecipeExtractor._validate_print_url *)

\* what a request does: it returns a response or raises
Response(status_code, present, value, size) ==
    [kind |-> "response", status_code |-> status_code, header_present |-> present,
     header_value |-> value, size |-> size, exception |-> "none"]
Raise(exception) ==
    [kind |-> "raise", status_code |-> 0, header_present |-> FALSE,
     header_value |-> <<>>, size |-> 0, exception |-> exception]

\* requests.Timeout and requests.ConnectionError, caught at line 353
RetriedExceptions == {"Timeout", "ConnectionError"}

\* the other subclasses of requests.RequestException, caught at line 359
OtherRequestExceptions == {"TooManyRedirects"}

\* the status codes of line 332
RateLimited == {429, 503}

\* max_retries = 1 if retry else 0, with one retry more
MaxRetriesTwo(retry) == IF retry THEN 2 ELSE 0

\* line 325: max_retries = 1 if retry else 0
MaxRetries(retry) == IF retry THEN 1 ELSE 0

\* line 343: 1024 < content_length < 5 * 1024 * 1024
ReasonableSize(content_length) ==
    1024 < content_length /\ content_length < 5 * 1024 * 1024

\* the local variables of a call; `requests` records the requests it made
NewValidation(url, retry) ==
    [pc |-> "head", url |-> url, retry |-> retry, max_retries |-> MaxRetries(retry),
     attempt |-> 0, requests |-> <<>>, result |-> <<>>]

\* lines 353-361: the except clauses
Except(v, exception) ==
    IF exception \in RetriedExceptions
    THEN IF v.attempt < v.max_retries
         THEN [v EXCEPT !.pc = "head", !.attempt = v.attempt + 1]
         ELSE [v EXCEPT !.pc = "done", !.result = <<FALSE, 0>>]
    ELSE IF exception \in OtherRequestExceptions
    THEN [v EXCEPT !.pc = "done", !.result = <<FALSE, 0>>]
    ELSE [v EXCEPT !.pc = "raised", !.result = <<exception>>]

\* lines 343-346 for a content length
SizeChecked(v, content_length) ==
    IF ReasonableSize(content_length)
    THEN [v EXCEPT !.pc = "done", !.result = <<TRUE, content_length>>]
    ELSE [v EXCEPT !.pc = "done", !.result = <<FALSE, 0>>]

\* lines 329-346 after requests.head has answered => r
AfterHead(v, r) ==
    IF r.kind = "raise" THEN Except(v, r.exception)
    ELSE IF r.status_code \in RateLimited /\ v.attempt < v.max_retries
    THEN [v EXCEPT !.pc = "head", !.attempt = v.attempt + 1]
    ELSE IF r.status_code = 200
    THEN IF ~r.header_present THEN [v EXCEPT !.pc = "get"]
         ELSE IF r.header_value = <<>> \/ ~AllDigits(r.header_value)
         THEN Except(v, "ValueError")
         ELSE IF IntValue(r.header_value) = 0 THEN [v EXCEPT !.pc = "get"]
         ELSE SizeChecked(v, IntValue(r.header_value))
    ELSE [v EXCEPT !.pc = "done", !.result = <<FALSE, 0>>]

\* lines 339-346 after requests.get has answered => r
AfterGet(v, r) ==
    IF r.kind = "raise" THEN Except(v, r.exception)
    ELSE SizeChecked(v, r.size)

\* the content-length headers and the body sizes the server may send
HeaderValues == {<<"0">>, <<"1", "0", "2", "4">>, <<"1", "0", "2", "5">>, <<"oil">>}
BodySizes == {0, 1025, 5 * 1024 * 1024}

HeadOutcomes ==
    {Response(s, FALSE, <<>>, 0) : s \in {200, 404, 429, 503}}
    \cup {Response(200, TRUE, h, 0) : h \in HeaderValues}
    \cup {Raise(e) : e \in RetriedExceptions \cup OtherRequestExceptions}

GetOutcomes ==
    {Response(200, FALSE, <<>>, n) : n \in BodySizes}
    \cup {Raise(e) : e \in RetriedExceptions \cup OtherRequestExceptions}

\* line 329: requests.head answers, and the code up to the next request runs
HeadAnswers ==
    /\ validation.pc = "head"
    /\ \E r \in HeadOutcomes :
          validation' = [AfterHead(validation, r) EXCEPT
                            !.requests = Append(validation.requests,
                                [method |-> "HEAD", attempt |-> validation.attempt, outcome |-> r])]
    /\ UNCHANGED <<markdown, verbose, pc, recipe_data, properties, blocks, calls, responses,
                   stderr, result, config, frames, print_url_cache, extractor, outcomes,
                   lambdaVars>>

\* line 340: requests.get answers
GetAnswers ==
    /\ validation.pc = "get"
    /\ \E r \in GetOutcomes :
          validation' = [AfterGet(validation, r) EXCEPT
                            !.requests = Append(validation.requests,
                                [method |-> "GET", attempt |-> validation.attempt, outcome |-> r])]
    /\ UNCHANGED <<markdown, verbose, pc, recipe_data, properties, blocks, calls, responses,
                   stderr, result, config, frames, print_url_cache, extractor, outcomes,
                   lambdaVars>>

-----------------------------------------------------------------------------
(* url_extractor.py: URLRecipeExtractor.find_best_url *)

\* A URL is the token sequence <<scheme, "://", netloc, "/", part, ...>> with
\* "/" between the parts of the path and, for a query, "?" and the query.

\* _get_domain: urlparse(url).netloc
get_domain(url) == url[3]

\* url.rstrip("/")
RECURSIVE RStripSlash(_)
RStripSlash(url) ==
    IF url # <<>> /\ url[Len(url)] = "/" THEN RStripSlash(SubSeq(url, 1, Len(url) - 1))
    ELSE url

\* "?" in url
HasQuery(url) == \E k \in 1..Len(url) : url[k] = "?"

\* str.endswith
EndsWith(s, suf) == Len(s) >= Len(suf) /\ SubSeq(s, Len(s) - Len(suf) + 1, Len(s)) = suf

\* the parts of urlparse(url).path, lines 207-208
PathParts(url) ==
    LET stop == IF HasQuery(url) THEN Min({k \in 1..Len(url) : url[k] = "?"}) - 1 ELSE Len(url)
    IN  SelectSeq(SubSeq(url, 4, stop), LAMBDA t : t # "/")

\* the parts that are all digits (str.isdigit); every other part of the model
\* has three characters or more and no .html/.htm/.php ending
NumericParts == {"2024"}

\* _extract_recipe_slug, lines 192-218: the last part that is not all digits, or <<>>
extract_recipe_slug(url) ==
    LET parts == PathParts(url)
        good == {k \in 1..Len(parts) : parts[k] \notin NumericParts}
    IN  IF good = {} THEN <<>> ELSE <<parts[Max(good)]>>

\* the query marker of lines 234-243
Query(url, word) ==
    RStripSlash(url) \o (IF HasQuery(url) THEN <<"&">> ELSE <<"?">>) \o word

WprmPrint(url) == <<url[1], "://", url[3], "/", "wprm_print", "/">> \o extract_recipe_slug(url)

\* _generate_print_candidates, lines 220-257
generate_print_candidates(url) ==
    <<Query(url, <<"print">>), Query(url, <<"print", "view">>)>>
    \o (IF extract_recipe_slug(url) # <<>> THEN <<WprmPrint(url)>> ELSE <<>>)
    \o <<RStripSlash(url) \o <<"/", "print", "/">>, RStripSlash(url) \o <<"/", "print">>>>

\* _apply_pattern, lines 259-285
apply_pattern(url, pattern_type) ==
    IF pattern_type = "query_print" THEN Query(url, <<"print">>)
    ELSE IF pattern_type = "query_printview" THEN Query(url, <<"print", "view">>)
    ELSE IF pattern_type = "wprm_print"
    THEN IF extract_recipe_slug(url) # <<>> THEN WprmPrint(url) ELSE url
    ELSE IF pattern_type = "suffix_print_slash" THEN RStripSlash(url) \o <<"/", "print", "/">>
    ELSE IF pattern_type = "suffix_print" THEN RStripSlash(url) \o <<"/", "print">>
    ELSE url

\* _identify_pattern, lines 287-308
identify_pattern(successful_url) ==
    IF Contains(successful_url, <<"?", "print", "view">>)
       \/ Contains(successful_url, <<"&", "print", "view">>) THEN "query_printview"
    ELSE IF Contains(successful_url, <<"?", "print">>)
            \/ Contains(successful_url, <<"&", "print">>) THEN "query_print"
    ELSE IF Contains(successful_url, <<"/", "wprm_print", "/">>) THEN "wprm_print"
    ELSE IF EndsWith(successful_url, <<"/", "print", "/">>) THEN "suffix_print_slash"
    ELSE IF EndsWith(successful_url, <<"/", "print">>) THEN "suffix_print"
    ELSE "unknown"

\* self._print_url_cache[domain] = pattern_type
CachePut(cache, domain, pattern_type) ==
    [d \in DOMAIN cache \cup {domain} |-> IF d = domain THEN pattern_type ELSE cache[d]]

\* the stale entry is kept
CacheKept(cache, domain) == cache

\* del self._print_url_cache[domain]
CacheDel(cache, domain) == [d \in DOMAIN cache \ {domain} |-> cache[d]]

\* lines 162-171: the URL the LLM found is returned, the cache is not written
LlmFound(cache, domain, print_url) == cache

\* no call in progress on the extractor
IdleExtractor(client) == [pc |-> "idle", anthropic_client |-> client]

\* `return best_url, method`: the call ends; `cache_hit` and `cached_valid`
\* record whether the domain was cached and how its candidate validated
ReturnAfter(cached_valid, best_url, method) ==
    /\ outcomes' = Append(outcomes,
                          [url |-> extractor.url, domain |-> extractor.domain,
                           best_url |-> best_url, method |-> method,
                           cache_hit |-> extractor.cache_hit,
                           cached_valid |-> cached_valid])
    /\ extractor' = IdleExtractor(extractor.anthropic_client)

Return(best_url, method) == ReturnAfter(extractor.cached_valid, best_url, method)

\* lines 116-139: the call starts; a cached domain has its candidate validated
FindBestUrl(url) ==
    /\ extractor.pc = "idle"
    /\ Len(outcomes) < MaxCalls
    /\ LET domain == get_domain(url)
           locals == [pc |-> "patterns", anthropic_client |-> extractor.anthropic_client,
                      url |-> url, domain |-> domain, candidate |-> <<>>,
                      patterns |-> generate_print_candidates(url), i |-> 1,
                      cache_hit |-> FALSE, cached_valid |-> "none"]
       IN  IF domain \in DOMAIN print_url_cache
           THEN LET candidate == apply_pattern(url, print_url_cache[domain])
                IN  /\ extractor' = [locals EXCEPT !.pc = "validating_cached",
                                                   !.candidate = candidate,
                                                   !.cache_hit = TRUE]
                    /\ validation' = NewValidation(candidate, TRUE)
           ELSE /\ extractor' = locals
                /\ UNCHANGED validation
    /\ UNCHANGED <<markdown, verbose, pc, recipe_data, properties, blocks, calls, responses,
                   stderr, result, config, frames, print_url_cache, outcomes, lambdaVars>>

\* lines 127-137: the cached candidate has been validated
CachedValidated ==
    /\ extractor.pc = "validating_cached"
    /\ validation.pc \in {"done", "raised"}
    /\ validation' = [pc |-> "idle"]
    /\ IF validation.pc = "raised"
       THEN /\ ReturnAfter("raised", extractor.url, "original")
            /\ UNCHANGED print_url_cache
       ELSE IF validation.result[1]
       THEN /\ ReturnAfter("valid", extractor.candidate, "cache")
            /\ UNCHANGED print_url_cache
       ELSE /\ print_url_cache' = CacheDel(print_url_cache, extractor.domain)
            /\ extractor' = [extractor EXCEPT !.pc = "patterns", !.cached_valid = "invalid"]
            /\ UNCHANGED outcomes
    /\ UNCHANGED <<markdown, verbose, pc, recipe_data, properties, blocks, calls, responses,
                   stderr, result, config, frames, lambdaVars>>

\* lines 141-151 and 162-177: the head of one iteration of the pattern loop
\* (`late`: the time budget is used up), and the code after the loop
PatternStep ==
    /\ extractor.pc = "patterns"
    /\ \E late \in BOOLEAN :
          IF extractor.i <= Len(extractor.patterns)
          THEN IF late
               THEN /\ Return(extractor.url, "original")
                    /\ UNCHANGED validation
               ELSE /\ extractor' = [extractor EXCEPT !.pc = "validating_pattern",
                                         !.candidate = extractor.patterns[extractor.i]]
                    /\ validation' = NewValidation(extractor.patterns[extractor.i], TRUE)
                    /\ UNCHANGED outcomes
          ELSE IF extractor.anthropic_client /\ ~late
               THEN /\ extractor' = [extractor EXCEPT !.pc = "llm_get"]
                    /\ UNCHANGED <<validation, outcomes>>
               ELSE /\ Return(extractor.url, "original")
                    /\ UNCHANGED validation
    /\ UNCHANGED <<markdown, verbose, pc, recipe_data, properties, blocks, calls, responses,
                   stderr, result, config, frames, print_url_cache, lambdaVars>>

\* lines 151-160: the candidate of the iteration has been validated
PatternValidated ==
    /\ extractor.pc = "validating_pattern"
    /\ validation.pc \in {"done", "raised"}
    /\ validation' = [pc |-> "idle"]
    /\ IF validation.pc = "raised"
       THEN /\ Return(extractor.url, "original")
            /\ UNCHANGED print_url_cache
       ELSE IF validation.result[1]
       THEN /\ print_url_cache' = CachePut(print_url_cache, extractor.domain,
                                           identify_pattern(extractor.candidate))
            /\ Return(extractor.candidate, "pattern")
       ELSE /\ extractor' = [extractor EXCEPT !.pc = "patterns", !.i = extractor.i + 1]
            /\ UNCHANGED <<print_url_cache, outcomes>>
    /\ UNCHANGED <<markdown, verbose, pc, recipe_data, properties, blocks, calls, responses,
                   stderr, result, config, frames, lambdaVars>>

\* _ask_llm_for_print_url, lines 388-394: the page is fetched, or the request
\* raises and the method returns None
LlmGet ==
    /\ extractor.pc = "llm_get"
    /\ \E raised \in BOOLEAN :
          IF raised THEN Return(extractor.url, "original")
          ELSE /\ extractor' = [extractor EXCEPT !.pc = "llm_ask"]
               /\ UNCHANGED outcomes
    /\ UNCHANGED <<markdown, verbose, pc, recipe_data, properties, blocks, calls, responses,
                   stderr, result, config, frames, print_url_cache, validation, lambdaVars>>

\* what messages.create may answer: an exception, NONE, text that is no URL, a URL
LlmAnswers(url) ==
    {<<"raise">>, <<"NONE">>, <<"oil">>,
     <<"https", "://", get_domain(url), "/", "recipe", "/", "print">>}

\* lines 418-432: the answer of the LLM; a URL is validated
LlmAnswer ==
    /\ extractor.pc = "llm_ask"
    /\ \E answer \in LlmAnswers(extractor.url) :
          IF answer[1] # "https"
          THEN /\ Return(extractor.url, "original")
               /\ UNCHANGED validation
          ELSE /\ extractor' = [extractor EXCEPT !.pc = "validating_llm", !.candidate = answer]
               /\ validation' = NewValidation(answer, TRUE)
               /\ UNCHANGED outcomes
    /\ UNCHANGED <<markdown, verbose, pc, recipe_data, properties, blocks, calls, responses,
                   stderr, result, config, frames, print_url_cache, lambdaVars>>

\* lines 434-443 and 166-171: the URL of the LLM has been validated
LlmValidated ==
    /\ extractor.pc = "validating_llm"
    /\ validation.pc \in {"done", "raised"}
    /\ validation' = [pc |-> "idle"]
    /\ IF validation.pc = "done" /\ validation.result[1]
       THEN /\ print_url_cache' = LlmFound(print_url_cache, extractor.domain, extractor.candidate)
            /\ Return(extractor.candidate, "llm")
       ELSE /\ Return(extractor.url, "original")
            /\ UNCHANGED print_url_cache
    /\ UNCHANGED <<markdown, verbose, pc, recipe_data, properties, blocks, calls, responses,
                   stderr, result, config, frames, lambdaVars>>

-----------------------------------------------------------------------------
(* lambda_handler.py *)

\* extract_sender_email, lines 76-88: re.search(r'<(.+?)>', from_header)
extract_sender_email(from_header) ==
    LET opens == {p \in 1..Len(from_header) :
                     /\ from_header[p] = "<"
                     /\ \E q \in (p + 2)..Len(from_header) :
                           /\ from_header[q] = ">"
                           /\ \A k \in (p + 1)..(q - 1) : from_header[k] # NL}
    IN  IF opens = {} THEN from_header
        ELSE LET p == Min(opens)
                 q == Min({q \in (p + 2)..Len(from_header) : from_header[q] = ">"})
             IN  SubSeq(from_header, p + 1, q - 1)

\* the wildcard entry admits every sender
WildcardAdmitsAll(sender, allowed) == StartsWith(allowed, <<"*", "@">>)

\* lines 68-71: the entry *@domain admits the senders that end with @domain
WildcardAdmits(sender, allowed) ==
    /\ StartsWith(allowed, <<"*", "@">>)
    /\ EndsWith(sender, <<"@">> \o SubSeq(allowed, 3, Len(allowed)))

\* is_email_whitelisted, lines 51-73
is_email_whitelisted(sender_email, whitelist) ==
    LET sender == Strip(LowerAll(sender_email))
        entries == Split(whitelist, ",")
        allowed_emails == [k \in 1..Len(entries) |-> LowerAll(Strip(entries[k]))]
    IN  \E k \in 1..Len(allowed_emails) :
            \/ allowed_emails[k] = sender
            \/ WildcardAdmits(sender, allowed_emails[k])

\* the characters that end a URL in extract_urls_from_text: white space and
\* the punctuation of the negated class (its double quote, backslash and
\* grave accent are not tokens of the bodies modelled here)
UrlStoppers == {SP, NL, "<", ">", "{", "}", "|", "^", "[", "]"}

\* extract_urls_from_text, lines 91-101: re.findall of http or https, ://,
\* then one or more characters that do not end a URL
RECURSIVE extract_urls_from_text(_, _)
extract_urls_from_text(text, p) ==
    IF p > Len(text) THEN <<>>
    ELSE LET n == RunNotIn(text, p + 2, UrlStoppers)
         IN  IF text[p] \in {"http", "https"} /\ At(text, p + 1) = "://" /\ n >= 1
             THEN <<SubSeq(text, p, p + 1 + n)>> \o extract_urls_from_text(text, p + 2 + n)
             ELSE extract_urls_from_text(text, p + 1)

\* extract_attachments, lines 123-147: the image parts of the message, in order
extract_attachments(parts) ==
    LET images == SelectSeq(parts, LAMBDA part : part.maintype = "image")
    IN  [k \in 1..Len(images) |->
            IF images[k].filename = <<>> THEN <<"recipe_image.jpg">> ELSE images[k].filename]

\* line 374: the value of DELETE_EMAILS_AFTER_PROCESSING, lower-cased, is "true";
\* <<>> stands for the variable not being set
DeleteEnabled(value) ==
    LowerAll(IF value = <<>> THEN <<"t", "r", "u", "e">> ELSE value) = <<"t", "r", "u", "e">>

\* one call made by the invocation
Effect(call, source, raised) == [call |-> call, source |-> source, raised |-> raised]

\* the email is deleted only when every item succeeded
DeleteDueOnSuccess(h) ==
    /\ DeleteEnabled(h.delete_env)
    /\ \A k \in 1..Len(h.results) : h.results[k].status = "success"

\* line 374: the test before delete_object
DeleteDue(h) == DeleteEnabled(h.delete_env)

\* the result of an item, with a failed item left out of the results
ItemResultDroppingErrors(h, type, source, outcome) ==
    IF outcome = "success"
    THEN [h EXCEPT !.results = Append(h.results,
                                      [type |-> type, source |-> source, status |-> "success"]),
                   !.i = h.i + 1]
    ELSE [h EXCEPT !.i = h.i + 1]

\* lines 337-350 and 358-371: the result appended for an item, by the try
\* branch or by the except branch
ItemResult(h, type, source, outcome) ==
    [h EXCEPT !.results = Append(h.results,
                                 [type |-> type, source |-> source,
                                  status |-> IF outcome = "success" THEN "success" ELSE "error"]),
              !.i = h.i + 1]

\* process_recipe_from_attachment, lines 172-239, and process_recipe_from_url,
\* lines 242-278: the call of line 334 or 355, in which the extraction oracle
\* is called, then the publisher unless the oracle raised
ItemEffects(attempt, oracle, source, outcome) ==
    <<Effect(attempt, source, outcome # "success"),
      Effect(oracle, source, outcome = "oracle_raises")>>
    \o (IF outcome = "oracle_raises" THEN <<>>
        ELSE <<Effect("push_recipe", source, outcome = "publish_raises")>>)

\* what may happen to an item
ItemOutcomes == {"oracle_raises", "publish_raises", "success"}

\* the responses of lines 380-386, 315-320 and 390-396
Ok(results) ==
    [statusCode |-> 200,
     message |-> <<Cardinality({k \in 1..Len(results) : results[k].status = "success"}),
                   Len(results)>>,
     results |-> results]
Forbidden == [statusCode |-> 403, message |-> <<"Sender not whitelisted">>, results |-> <<>>]
InternalError == [statusCode |-> 500, message |-> <<"Internal error">>, results |-> <<>>]

\* the invocation before it has run
NewInvocation(from_header, whitelist, parts, body, delete_env) ==
    [pc |-> "start", from_header |-> from_header, whitelist |-> whitelist, parts |-> parts,
     body |-> body, delete_env |-> delete_env, sender_email |-> <<>>,
     aborted |-> "none", attachments |-> <<>>, urls |-> <<>>, results |-> <<>>, i |-> 1,
     response |-> <<>>]

\* lines 291-329: the secrets, the email, the whitelist test, the extraction.
\* `abort` is the step that raises, if any: the except branch of line 388
\* answers 500
Invoke ==
    /\ handler.pc = "start"
    /\ \E abort \in {"none", "secrets", "parse", "extract"} :
          LET sender == extract_sender_email(handler.from_header)
              h == [handler EXCEPT !.sender_email = sender]
              raised == [handler EXCEPT !.pc = "returned", !.aborted = abort,
                                        !.response = InternalError]
          IN  IF abort = "secrets"
              THEN /\ handler' = raised
                   /\ UNCHANGED effects
              ELSE IF abort = "parse"
              THEN /\ handler' = raised
                   /\ effects' = Append(effects, Effect("get_object", <<>>, TRUE))
              ELSE /\ effects' = Append(effects, Effect("get_object", <<>>, FALSE))
                   /\ IF ~is_email_whitelisted(sender, handler.whitelist)
                      THEN handler' = [h EXCEPT !.pc = "returned", !.response = Forbidden]
                      ELSE IF abort = "extract"
                      THEN handler' = [raised EXCEPT !.sender_email = sender]
                      ELSE handler' = [h EXCEPT !.pc = "attachments",
                                          !.attachments = extract_attachments(handler.parts),
                                          !.urls = extract_urls_from_text(handler.body, 1),
                                          !.results = <<>>, !.i = 1]
    /\ UNCHANGED <<markdown, verbose, pc, recipe_data, properties, blocks, calls, responses,
                   stderr, result, config, frames, webVars>>

\* lines 332-350: one attachment is processed
ProcessAttachment ==
    /\ handler.pc = "attachments"
    /\ handler.i <= Len(handler.attachments)
    /\ \E outcome \in ItemOutcomes :
          LET source == handler.attachments[handler.i]
          IN  /\ handler' = ItemResult(handler, "image", source, outcome)
              /\ effects' = effects \o ItemEffects("process_recipe_from_attachment", "process_image",
                                                   source, outcome)
    /\ UNCHANGED <<markdown, verbose, pc, recipe_data, properties, blocks, calls, responses,
                   stderr, result, config, frames, webVars>>

\* lines 332 and 353: the loop over the attachments is over
AttachmentsDone ==
    /\ handler.pc = "attachments"
    /\ handler.i > Len(handler.attachments)
    /\ handler' = [handler EXCEPT !.pc = "urls", !.i = 1]
    /\ UNCHANGED <<markdown, verbose, pc, recipe_data, properties, blocks, calls, responses,
                   stderr, result, config, frames, webVars, effects>>

\* lines 353-371: one URL is processed
ProcessUrl ==
    /\ handler.pc = "urls"
    /\ handler.i <= Len(handler.urls)
    /\ \E outcome \in ItemOutcomes :
          LET source == handler.urls[handler.i]
          IN  /\ handler' = ItemResult(handler, "url", source, outcome)
              /\ effects' = effects \o ItemEffects("process_recipe_from_url", "process_url",
                                                   source, outcome)
    /\ UNCHANGED <<markdown, verbose, pc, recipe_data, properties, blocks, calls, responses,
                   stderr, result, config, frames, webVars>>

\* lines 374-386: the email is deleted and the summary returned; delete_object
\* may raise, and the except branch of line 388 answers 500
Cleanup ==
    /\ handler.pc = "urls"
    /\ handler.i > Len(handler.urls)
    /\ IF DeleteDue(handler)
       THEN \E raised \in BOOLEAN :
               /\ effects' = Append(effects, Effect("delete_object", <<>>, raised))
               /\ handler' = [handler EXCEPT !.pc = "returned",
                                 !.response = IF raised THEN InternalError
                                              ELSE Ok(handler.results)]
       ELSE /\ handler' = [handler EXCEPT !.pc = "returned", !.response = Ok(handler.results)]
            /\ UNCHANGED effects
    /\ UNCHANGED <<markdown, verbose, pc, recipe_data, properties, blocks, calls, responses,
                   stderr, result, config, frames, webVars>>

-----------------------------------------------------------------------------
(* push_recipe *)

\* the keys of the properties dict in the order push_recipe inserts them
PropertyOrder == <<"Name", "Cuisine", "Protein", "Course", "Method", "Effort", "Rating">>

\* [c.strip() for c in field.split(",")] filtered by `if val`
CommaValues(field) ==
    LET parts == Split(field, ",")
    IN  SelectNonEmpty([k \in 1..Len(parts) |-> Strip(parts[k])])

Title(name)        == [kind |-> "title", value |-> <<name>>]
MultiSelect(field) == [kind |-> "multi_select", value |-> CommaValues(field)]
SelectOne(field)   == [kind |-> "select", value |-> <<Strip(field)>>]

\* lines 166-218: the properties dict
BuildProperties(r) ==
    LET present == {"Name"}
                   \cup (IF r.cuisine # <<>> THEN {"Cuisine"} ELSE {})
                   \cup (IF r.protein # <<>> THEN {"Protein"} ELSE {})
                   \cup (IF r.course # <<>> THEN {"Course"} ELSE {})
                   \cup (IF r.method # <<>> THEN {"Method"} ELSE {})
                   \cup (IF r.effort # <<>> THEN {"Effort"} ELSE {})
                   \cup (IF r.rating # <<>> THEN {"Rating"} ELSE {})
    IN  [k \in present |->
            CASE k = "Name"    -> Title(r.name)
              [] k = "Cuisine" -> MultiSelect(r.cuisine)
              [] k = "Protein" -> MultiSelect(r.protein)
              [] k = "Course"  -> MultiSelect(r.course)
              [] k = "Method"  -> MultiSelect(r.method)
              [] k = "Effort"  -> SelectOne(r.effort)
              [] k = "Rating"  -> SelectOne(r.rating)]

\* a retry that sends the full property set again
MinimalPropertiesAll(props) == props

\* lines 251-253
MinimalProperties(props) == [k \in {"Name"} |-> props[k]]

\* the arguments of one self.client.pages.create call
CreateCall(props, children) == [properties |-> props, children |-> children]

\* a test for the shorter phrase the split of line 246 uses
IsSchemaErrorLoose(error_msg) == Contains(error_msg, <<"is not a property">>)

\* `"is not a property that exists" in error_msg`
IsSchemaError(error_msg) == Contains(error_msg, <<"is not a property", " that exists">>)

\* error_msg.split("is not a property")[0].strip()
FailedProp(error_msg) == Strip(Split(error_msg, "is not a property")[1])

\* [k for k in properties.keys() if k != 'Name'], in insertion order
RECURSIVE DroppedFrom(_, _)
DroppedFrom(props, i) ==
    IF i > Len(PropertyOrder) THEN <<>>
    ELSE (IF PropertyOrder[i] # "Name" /\ PropertyOrder[i] \in DOMAIN props
          THEN <<<<PropertyOrder[i]>>>> ELSE <<>>)
         \o DroppedFrom(props, i + 1)
\* a list that forgets the `if k != 'Name'` filter
DroppedPropertiesWithName(props) == <<<<"Name">>>> \o DroppedFrom(props, 1)

DroppedProperties(props) == DroppedFrom(props, 1)

\* the print of line 248
NotFoundWarning(failed_prop) == [msg |-> "property not found", names |-> <<failed_prop>>]
\* the print of line 262
CreatedWithoutWarning(props) == [msg |-> "created without", names |-> DroppedProperties(props)]
\* the prints of lines 263-269
SchemaHint == [msg |-> "add these fields", names |-> <<<<"Cuisine">>, <<"Protein">>, <<"Course">>,
                                                       <<"Method">>, <<"Effort">>, <<"Rating">>>>]

\* the messages the publishing service answers a failed create with
SchemaError(prop) == <<prop, SP, "is not a property", " that exists">>
\* the answer to a create that succeeded
PageCreated == <<"page">>

\* the errors a create call can raise: a rejection of one of the properties
\* the call carries, a validation error of another kind, a transport error
Errors(call) ==
    {SchemaError(k) : k \in DOMAIN call.properties}
    \cup {<<"Name", SP, "is not a property", " of type select">>, <<"Rate limited">>}

\* lines 151-238: parse, build the properties and the blocks, issue the first create
PushRecipeCall ==
    /\ pc = "start"
    /\ recipe_data' = parse_recipe_markdown(markdown)
    /\ properties' = BuildProperties(recipe_data')
    /\ blocks' = build_page_content(recipe_data')
    /\ calls' = <<CreateCall(properties', blocks')>>
    /\ pc' = "create1"
    /\ UNCHANGED <<markdown, verbose, responses, stderr, result, config, frames, webVars, lambdaVars>>

\* line 239: the first create returned a page
FirstCreateReturns ==
    /\ pc = "create1"
    /\ responses' = Append(responses, PageCreated)
    /\ result' = [kind |-> "url", error |-> <<>>]
    /\ pc' = "done"
    /\ UNCHANGED <<markdown, verbose, recipe_data, properties, blocks, calls, stderr, config, frames, webVars, lambdaVars>>

\* lines 240-259 and 272-274: the first create raised e
FirstCreateRaises ==
    /\ pc = "create1"
    /\ \E e \in Errors(calls[1]) :
         /\ responses' = Append(responses, e)
         /\ IF IsSchemaError(e)
            THEN /\ stderr' = IF verbose THEN Append(stderr, NotFoundWarning(FailedProp(e)))
                                          ELSE stderr
                 /\ calls' = Append(calls, CreateCall(MinimalProperties(properties), blocks))
                 /\ pc' = "create2"
                 /\ UNCHANGED result
            ELSE /\ result' = [kind |-> "raised", error |-> e]
                 /\ pc' = "raised"
                 /\ UNCHANGED <<calls, stderr>>
    /\ UNCHANGED <<markdown, verbose, recipe_data, properties, blocks, config, frames, webVars, lambdaVars>>

\* lines 261-271: the retry returned a page
RetryReturns ==
    /\ pc = "create2"
    /\ responses' = Append(responses, PageCreated)
    /\ stderr' = IF verbose
                 THEN stderr \o <<CreatedWithoutWarning(properties), SchemaHint>>
                 ELSE stderr
    /\ result' = [kind |-> "url", error |-> <<>>]
    /\ pc' = "done"
    /\ UNCHANGED <<markdown, verbose, recipe_data, properties, blocks, calls, config, frames, webVars, lambdaVars>>

\* line 255 raising inside the except branch: nothing catches it
RetryRaises ==
    /\ pc = "create2"
    /\ \E e \in Errors(calls[2]) :
         /\ responses' = Append(responses, e)
         /\ result' = [kind |-> "raised", error |-> e]
    /\ pc' = "raised"
    /\ UNCHANGED <<markdown, verbose, recipe_data, properties, blocks, calls, stderr, config, frames, webVars, lambdaVars>>

-----------------------------------------------------------------------------
(* The documents push_recipe is called with *)

TitleLine == <<"#", SP, "Soup">>

\* "*Cuisine: <v1> | Protein: <v2> | ... | Cook Time: <v7>*"
RECURSIVE PropsLineFrom(_, _)
PropsLineFrom(v, i) ==
    <<PropertyLabels[i], SP>> \o v[i]
    \o (IF i = Len(PropertyLabels) THEN <<"*">>
        ELSE <<SP, "|", SP>> \o PropsLineFrom(v, i + 1))
PropsLine(v) == <<"*">> \o PropsLineFrom(v, 1)

CuisineValues == {<<>>, <<"Thai">>, <<"Thai", ",", SP, "Greek">>, <<",", SP, "Thai", SP, ",">>}
TagValues     == {<<>>, <<"oil">>}
CookValues    == {<<>>, <<"2", SP, "min">>}

PushBodies ==
    {<<>>,
     Join(<<<<"#", "#", SP, "Ingredients">>,
            <<"|", SP, "Ingredient", SP, "|", SP, "Measurement", SP, "|", SP, "Method", SP, "|">>,
            <<"|", "-", "-", "-", "|", "-", "-", "-", "|", "-", "-", "-", "|">>,
            <<"|", SP, "oil", SP, "|", SP, "1", SP, "cup", SP, "|", SP, "Mix", SP, "|">>,
            <<"#", "#", SP, "Directions">>,
            <<"1", ".", SP, "Mix">>,
            <<"#", "#", SP, "Notes">>,
            <<"salt">>>>, <<NL>>)}

PushDocs ==
    {Join(<<TitleLine, PropsLine(<<c, p, co, m, e, r, ct>>), b>>, <<NL>>) :
        c \in CuisineValues, p \in TagValues, co \in TagValues, m \in TagValues,
        e \in TagValues, r \in TagValues, ct \in CookValues, b \in PushBodies}
    \cup {Join(<<PropsLine(<<c, <<>>, <<>>, <<>>, <<"oil">>, <<>>, <<>>>>), b>>, <<NL>>) :
        c \in CuisineValues, b \in PushBodies}
    \cup {Join(<<TitleLine, b>>, <<NL>>) : b \in PushBodies}

InitPush ==
    /\ markdown \in PushDocs
    /\ verbose \in BOOLEAN
    /\ pc = "start"
    /\ recipe_data = <<>>
    /\ properties = <<>>
    /\ blocks = <<>>
    /\ calls = <<>>
    /\ responses = <<>>
    /\ stderr = <<>>
    /\ result = <<>>
    /\ config = DEFAULT_CONFIG
    /\ WebIdle
    /\ LambdaIdle
    /\ frames = <<>>

NextPush ==
    \/ PushRecipeCall
    \/ FirstCreateReturns
    \/ FirstCreateRaises
    \/ RetryReturns
    \/ RetryRaises

SpecPush == InitPush /\ [][NextPush]_vars

-----------------------------------------------------------------------------
(* The documents parse_recipe_markdown is called with *)

\* all sequences of at most n elements of the set S
RECURSIVE SeqsUpTo(_, _)
SeqsUpTo(S, n) ==
    IF n = 0 THEN {<<>>}
    ELSE LET shorter == SeqsUpTo(S, n - 1)
         IN  shorter \cup {Append(q, x) : q \in {t \in shorter : Len(t) = n - 1}, x \in S}

Heading(name) == <<"#", "#", SP, name>>
Rule == <<"-", "-", "-">>

\* the lines a free-form document is made of
ParseLines ==
    {<<"#", SP, "Soup">>, <<"#">>, <<"#", "#">>,
     Heading("Ingredients"), Heading("Instructions"), Heading("Directions"),
     <<"#", "#", "#", SP, "Mix">>, <<"-", SP, "oil">>, Rule, <<>>, <<"Mix">>,
     <<"*", "*", "Prep Time:", "*", "*", SP, "2">>}

ParseDocs == {Join(ls, <<NL>>) : ls \in SeqsUpTo(ParseLines, MaxLines)}

\* one section of the template: the heading, k blank lines, a body line or
\* none, a horizontal rule or none
TemplateSection(name, k, body, rule) ==
    <<Heading(name)>> \o [i \in 1..k |-> <<>>] \o body \o (IF rule THEN <<Rule>> ELSE <<>>)

TemplateSections(name) ==
    {TemplateSection(name, k, body, rule) :
        k \in 0..MaxBlank, body \in {<<>>, <<<<"oil">>>>}, rule \in BOOLEAN}

\* the tail of the template: Photos, Sources (or Links), Notes
TemplateDocs ==
    {Join(a \o b \o c, <<NL>>) :
        a \in TemplateSections("Photos"),
        b \in TemplateSections("Sources") \cup TemplateSections("Links"),
        c \in TemplateSections("Notes")}

InitParse ==
    /\ markdown \in ParseDocs \cup TemplateDocs
    /\ verbose = FALSE
    /\ pc = "start"
    /\ recipe_data = <<>>
    /\ properties = <<>>
    /\ blocks = <<>>
    /\ calls = <<>>
    /\ responses = <<>>
    /\ stderr = <<>>
    /\ result = <<>>
    /\ config = DEFAULT_CONFIG
    /\ WebIdle
    /\ LambdaIdle
    /\ frames = <<>>

\* a call of parse_recipe_markdown
ParseCall ==
    /\ pc = "start"
    /\ recipe_data' = parse_recipe_markdown(markdown)
    /\ pc' = "parsed"
    /\ UNCHANGED <<markdown, verbose, properties, blocks, calls, responses, stderr, result, config, frames, webVars, lambdaVars>>

NextParse == ParseCall

SpecParse == InitParse /\ [][NextParse]_vars

-----------------------------------------------------------------------------
(* The records _build_page_content is called with *)

IngredientLines ==
    {<<"-", SP, "oil">>, <<"*", SP, "salt">>, <<"Mix">>, <<"#", "#", "#", SP, "Soup">>, <<>>,
     <<"|", SP, "Ingredient", SP, "|", SP, "Measurement", SP, "|", SP, "Method", SP, "|">>,
     <<"|", "-", "-", "-", "|", "-", "-", "-", "|", "-", "-", "-", "|">>,
     <<"|", SP, "oil", SP, "|", SP, "1", SP, "cup", SP, "|", SP, "Mix", SP, "|">>,
     <<"|", SP, "salt", SP, "|", SP, "2", SP, "|">>}

DirectionLines ==
    {<<"1", ".", SP, "Mix">>, <<"Mix", SP, "oil">>, Rule, <<"#", "#", "#", SP, "Soup">>, <<>>,
     <<"2", ".">>, <<"-", SP, "oil">>, <<"1", ")", SP, "Mix">>}

\* section bodies as the parser leaves them: stripped
Bodies(lines) ==
    {b \in {Join(ls, <<NL>>) : ls \in SeqsUpTo(lines, MaxBodyLines)} : Strip(b) = b}

Record(ing, dir, notes, links, nutrition, photos) ==
    [name           |-> <<"Soup">>,
     cuisine        |-> <<>>,
     protein        |-> <<>>,
     course         |-> <<>>,
     method         |-> <<>>,
     effort         |-> <<>>,
     rating         |-> <<>>,
     cook_time_prop |-> <<>>,
     prep_time      |-> <<>>,
     cook_time      |-> <<>>,
     total_time     |-> <<>>,
     servings       |-> <<>>,
     ingredients    |-> ing,
     directions     |-> dir,
     notes          |-> notes,
     links          |-> links,
     nutrition      |-> nutrition,
     photos         |-> photos]

Texts == {<<>>, <<"salt">>}

BuildRecords ==
    {Record(ing, <<"1", ".", SP, "Mix">>, <<"salt">>, <<>>, <<>>, <<>>) :
        ing \in Bodies(IngredientLines)}
    \cup {Record(<<"-", SP, "oil">>, dir, <<>>, <<"salt">>, <<>>, <<>>) :
        dir \in Bodies(DirectionLines)}
    \cup {Record(ing, dir, notes, links, nutrition, photos) :
        ing \in {<<>>, <<"-", SP, "oil">>}, dir \in {<<>>, <<"Mix">>},
        notes \in Texts, links \in Texts, nutrition \in Texts, photos \in Texts}

InitBuild ==
    /\ markdown = <<>>
    /\ verbose = FALSE
    /\ pc = "parsed"
    /\ recipe_data \in BuildRecords
    /\ properties = <<>>
    /\ blocks = <<>>
    /\ calls = <<>>
    /\ responses = <<>>
    /\ stderr = <<>>
    /\ result = <<>>
    /\ config = DEFAULT_CONFIG
    /\ WebIdle
    /\ LambdaIdle
    /\ frames = <<>>

\* a call of _build_page_content
BuildCall ==
    /\ pc = "parsed"
    /\ blocks' = build_page_content(recipe_data)
    /\ pc' = "built"
    /\ UNCHANGED <<markdown, verbose, recipe_data, properties, calls, responses, stderr, result, config, frames, webVars, lambdaVars>>

NextBuild == BuildCall

SpecBuild == InitBuild /\ [][NextBuild]_vars

-----------------------------------------------------------------------------
(* Properties of push_recipe, checked under SpecPush *)

\* a create was rejected because a property is missing from the database schema
SchemaRejection(msg) == Contains(msg, <<"is not a property", " that exists">>)

\* C1: when the first create is rejected for a missing property, exactly one
\* further create is made; it carries the Name property alone, with the title
\* of the first attempt, and the block list of the first attempt unchanged;
\* no push makes more than two creates.
C1_RetryOnceTitleOnly ==
    /\ Len(calls) <= 2
    /\ (Len(responses) >= 1 /\ SchemaRejection(responses[1])) =>
          /\ Len(calls) = 2
          /\ DOMAIN calls[2].properties = {"Name"}
          /\ calls[2].properties["Name"] = calls[1].properties["Name"]
          /\ calls[2].properties["Name"].kind = "title"
          /\ calls[2].children = calls[1].children

\* a push that dropped Cuisine on the retry and still sent the whole page
C1_Witness ==
    /\ pc = "done"
    /\ Len(calls) = 2
    /\ "Cuisine" \in DOMAIN calls[1].properties
    /\ Len(calls[2].children) > 8

\* C2: a second create is made only after a missing-property rejection of the
\* first; any other failure of the first create, and any failure of the retry,
\* reaches the caller as that exception with no further create.
C2_OnlySchemaRejectionRetries ==
    /\ Len(calls) = 2 => (Len(responses) >= 1 /\ SchemaRejection(responses[1]))
    /\ \A i \in 1..Len(responses) :
          (responses[i] # PageCreated /\ ~(i = 1 /\ SchemaRejection(responses[1]))) =>
             /\ pc = "raised"
             /\ result = [kind |-> "raised", error |-> responses[i]]
             /\ Len(calls) = i
             /\ Len(responses) = i

\* the retry itself was rejected for a missing property, and the push stopped there
C2_Witness ==
    /\ pc = "raised"
    /\ Len(responses) = 2
    /\ SchemaRejection(responses[2])

\* the names of the properties the retry leaves out
DroppedNames == {<<k>> : k \in DOMAIN calls[1].properties \ {"Name"}}

\* C3 as stated: a push that went through the retry and dropped properties
\* has printed a warning that lists them, whatever the verbose flag.
C3_WarningAlways ==
    (pc = "done" /\ Len(calls) = 2 /\ DroppedNames # {}) =>
        \E i \in 1..Len(stderr) :
            /\ stderr[i].msg = "created without"
            /\ {stderr[i].names[k] : k \in 1..Len(stderr[i].names)} = DroppedNames

\* C3 amended: with verbose on, taking the retry prints a warning that
\* names the rejected property, and a retry that succeeds prints a warning
\* that lists every dropped property once; with verbose off nothing is printed.
C3_WarningWhenVerbose ==
    /\ ~verbose => stderr = <<>>
    /\ (verbose /\ Len(calls) = 2) =>
          /\ Len(stderr) >= 1
          /\ stderr[1].msg = "property not found"
          /\ stderr[1].names = <<<<responses[1][1]>>>>
    /\ (verbose /\ Len(calls) = 2 /\ pc = "done") =>
          /\ Len(stderr) >= 2
          /\ stderr[2].msg = "created without"
          /\ {stderr[2].names[k] : k \in 1..Len(stderr[2].names)} = DroppedNames
          /\ Len(stderr[2].names) = Cardinality(DroppedNames)

\* a verbose push whose retry succeeded after dropping two or more properties
C3_Witness ==
    /\ verbose
    /\ pc = "done"
    /\ Len(calls) = 2
    /\ Cardinality(DroppedNames) >= 2

\* the property a record field is sent as
FieldProperty == [cuisine |-> "Cuisine", protein |-> "Protein", course |-> "Course",
                  method |-> "Method", effort |-> "Effort", rating |-> "Rating",
                  cook_time_prop |-> "Cook Time"]

\* C8: the first create carries the title taken from record.name and, for
\* each of cuisine, protein, course, method, effort, rating and the
\* cooking-time text, a property exactly when the field is non-empty:
\* multi-select of the comma-split, trimmed, non-empty values for the first
\* four, select for effort and rating.
C8_PropertiesFromRecord ==
    pc # "start" =>
        LET sent == calls[1].properties
        IN  /\ "Name" \in DOMAIN sent
            /\ sent["Name"] = [kind |-> "title", value |-> <<recipe_data.name>>]
            /\ \A f \in DOMAIN FieldProperty :
                  (recipe_data[f] # <<>>) <=> (FieldProperty[f] \in DOMAIN sent)
            /\ \A f \in {"cuisine", "protein", "course", "method"} :
                  recipe_data[f] # <<>> =>
                     /\ sent[FieldProperty[f]].kind = "multi_select"
                     /\ \A k \in 1..Len(sent[FieldProperty[f]].value) :
                           LET val == sent[FieldProperty[f]].value[k]
                           IN  val # <<>> /\ Strip(val) = val /\ "," \notin {val[n] : n \in 1..Len(val)}
            /\ \A f \in {"effort", "rating"} :
                  recipe_data[f] # <<>> =>
                     sent[FieldProperty[f]] = [kind |-> "select", value |-> <<recipe_data[f]>>]

-----------------------------------------------------------------------------
(* Properties of parse_recipe_markdown, checked under SpecParse *)

DocLines == Split(markdown, <<NL>>[1])

\* a line of the form '# <text>'
IsTitleLine(l) == Len(l) >= 3 /\ l[1] = "#" /\ l[2] = SP

\* the section names and the record field each is stored in
SectionField == [Ingredients |-> "ingredients", Directions |-> "directions",
                 Notes |-> "notes", Links |-> "links", Nutrition |-> "nutrition",
                 Photos |-> "photos"]

MetaLabel == [prep_time |-> "Prep Time:", cook_time |-> "Cook Time:",
              total_time |-> "Total Time:", servings |-> "Servings:"]

HasToken(s, t) == \E i \in 1..Len(s) : s[i] = t

\* C4: the parser returns the fixed key set for every document; name is the
\* fallback when no line reads '# <text>'; a metadata field is empty when its
\* label is absent, the taxonomy fields when the properties line is absent,
\* a section body when no line is that section's '## ' heading.
C4_TotalWithDefaults ==
    pc = "parsed" =>
        /\ DOMAIN recipe_data = RecipeKeys
        /\ (\A i \in 1..Len(DocLines) : ~IsTitleLine(DocLines[i])) =>
              recipe_data.name = <<"Untitled Recipe">>
        /\ \A f \in DOMAIN MetaLabel :
              ~HasToken(markdown, MetaLabel[f]) => recipe_data[f] = <<>>
        /\ ~HasToken(markdown, "Cuisine:") =>
              \A f \in {"cuisine", "protein", "course", "method", "effort", "rating",
                        "cook_time_prop"} : recipe_data[f] = <<>>
        /\ \A n \in DOMAIN SectionField :
              (\A i \in 1..Len(DocLines) : ~StartsWith(DocLines[i], Heading(n))) =>
                 recipe_data[SectionField[n]] = <<>>

\* a line that ends a section: it starts with '---', or with '## ' and an
\* upper-case letter
IsBoundaryLine(l) ==
    \/ StartsWith(l, Rule)
    \/ Len(l) >= 4 /\ l[1] = "#" /\ l[2] = "#" /\ l[3] = SP /\ IsUpper(l[4])

\* the index of the first boundary line after line i, or one past the last line
SectionStop(lines, i) ==
    Min({j \in (i + 1)..Len(lines) : IsBoundaryLine(lines[j])} \cup {Len(lines) + 1})

\* the first line that is the '## ' heading of the section, or 0
FirstHeading(lines, name) ==
    Min({i \in 1..Len(lines) : lines[i] = Heading(name)} \cup {Len(lines) + 1})

\* the record's instructions body; the record the parser returns has no key
\* of that name, its directions body stands in for it
InstructionsField(r) == IF "instructions" \in DOMAIN r THEN r["instructions"] ELSE r.directions

\* C5: when the document has a '## Instructions' section with a '###'
\* subheading and steps, the record's instructions body contains every
\* subheading line and every step line of the section up to its boundary.
C5_InstructionsKept ==
    pc = "parsed" =>
        LET i == FirstHeading(DocLines, "Instructions")
            stop == SectionStop(DocLines, i)
            inside == {j \in (i + 1)..(stop - 1) : DocLines[j] # <<>>}
            subs == {j \in inside : StartsWith(DocLines[j], <<"#", "#", "#">>)}
            steps == {j \in inside : DocLines[j][1] # "#"}
        IN  (i <= Len(DocLines) /\ \E j \in subs : \E k \in steps : j < k) =>
                \A j \in subs \cup steps : Contains(InstructionsField(recipe_data), DocLines[j])

\* C6: the ingredients body is the text between the '## Ingredients' heading
\* and the first following boundary line (the end of the document when there
\* is none), '###' lines and the lines under them included.
C6_IngredientsBody ==
    pc = "parsed" =>
        LET i == FirstHeading(DocLines, "Ingredients")
            stop == SectionStop(DocLines, i)
        IN  i <= Len(DocLines) =>
                recipe_data.ingredients = Strip(Join(SubSeq(DocLines, i + 1, stop - 1), <<NL>>))

\* the heading of the section is followed, after blank lines only, by a '---' line
EmptySection(lines, name) ==
    \E i \in 1..Len(lines) : \E j \in (i + 1)..Len(lines) :
        /\ lines[i] = Heading(name)
        /\ lines[j] = Rule
        /\ \A k \in (i + 1)..(j - 1) : lines[k] = <<>>

\* C7: when the Photos, Sources and Notes headings are each followed by
\* '---', the record's photos, sources and notes fields are each the empty
\* string.
C7_EmptySections ==
    (pc = "parsed" /\ \A n \in {"Photos", "Sources", "Notes"} : EmptySection(DocLines, n)) =>
        \A f \in {"photos", "sources", "notes"} :
            f \in DOMAIN recipe_data /\ recipe_data[f] = <<>>

-----------------------------------------------------------------------------
(* Properties of _build_page_content, checked under SpecBuild *)

\* the indices of the blocks of one type
BlocksOf(type) == {i \in 1..Len(blocks) : blocks[i].type = type}

\* the index of the level-2 heading with the title, or 0
HeadingIndex(title) ==
    Max({0} \cup {i \in BlocksOf("heading_2") : blocks[i].text = <<title>>})

\* the section titles in template order
SectionOrder == <<"Ingredients", "Directions", "Notes", "Links", "Nutrition", "Photos">>

StripMarker(l) ==
    IF l # <<>> /\ l[1] \in {"-", "*"} THEN Strip(SubSeq(l, 2, Len(l))) ELSE l

IsBulleted(b) == b.type = "bulleted_list_item"

\* C10: when the ingredients body has no table, each non-empty line that is
\* not a '###' line becomes one bulleted item with the marker stripped.
C10_BulletedIngredients ==
    pc = "built" =>
        LET lines == StrippedLines(recipe_data.ingredients)
            items == SelectSeq(lines, LAMBDA l : ~StartsWith(l, <<"#", "#", "#">>))
            bullets == SelectSeq(blocks, IsBulleted)
        IN  (\A k \in 1..Len(lines) : ~StartsWith(lines[k], <<"|">>)) =>
                /\ Len(bullets) = Len(items)
                /\ \A k \in 1..Len(bullets) : bullets[k].text = StripMarker(items[k])

-----------------------------------------------------------------------------
(* The Directions section of the page, checked under SpecBuild *)

\* t is what is left of the line l once a leading ordinal marker (digits, a
\* period, blanks) is taken away; a line without such a marker is left whole
OrdinalRemoved(l, t) ==
    LET marked == \E d \in 1..Len(l) :
                      /\ \A i \in 1..d : l[i] \in Digits
                      /\ At(l, d + 1) = "."
    IN  IF marked
        THEN \E d \in 1..Len(l) : \E k \in 0..Len(l) :
                /\ \A i \in 1..d : l[i] \in Digits
                /\ At(l, d + 1) = "."
                /\ d + 1 + k <= Len(l)
                /\ \A i \in (d + 2)..(d + 1 + k) : IsSpace(l[i])
                /\ ~IsSpace(At(l, d + 2 + k))
                /\ t = SubSeq(l, d + 2 + k, Len(l))
        ELSE t = l

WithoutOrdinal(l) ==
    CHOOSE t \in {SubSeq(l, p, Len(l)) : p \in 1..(Len(l) + 1)} : OrdinalRemoved(l, t)

\* the trimmed, non-empty lines of the directions body, in order
DirectionBodyLines ==
    LET raw == Split(recipe_data.directions, NL)
    IN  SelectSeq([k \in 1..Len(raw) |-> Strip(raw[k])], LAMBDA l : l # <<>>)

IsSubheadingLine(l) == StartsWith(l, <<"#", "#", "#">>)

\* the lines of the body that yield a block
YieldingLines ==
    SelectSeq(DirectionBodyLines,
              LAMBDA l : l # Rule /\ (IsSubheadingLine(l) \/ WithoutOrdinal(l) # <<>>))

\* the blocks between the Directions heading and the divider that closes the section
DirectionSectionBlocks ==
    SubSeq(blocks, HeadingIndex("Directions") + 1, HeadingIndex("Notes") - 2)

-----------------------------------------------------------------------------
(* The formatter calls *)

\* format(markdown) run to its end: the loop from the frame f on
RECURSIVE FormatFrom(_, _)
FormatFrom(cfg, f) ==
    IF f.i > Len(f.lines) THEN Join(f.out_lines, <<NL>>)
    ELSE FormatFrom(cfg, FormatIteration(cfg, f))

format(cfg, text) == FormatFrom(cfg, EnterLoop(NewFrame("format", text)))

\* renumber_instructions(markdown) run to its end
RECURSIVE RenumberFrom(_)
RenumberFrom(f) ==
    IF f.i > Len(f.lines) THEN Join(f.out_lines, <<NL>>)
    ELSE RenumberFrom(RenumberIteration(f))

renumber_instructions(text) == RenumberFrom(EnterLoop(NewFrame("renumber", text)))

\* the configurations: the three flags, with the default dicts
Configs == {FormattingConfig(n, b, p) : n \in BOOLEAN, b \in BOOLEAN, p \in BOOLEAN}

\* the lines of the documents format is called with
FormatLines ==
    {IngredientsHeading, <<SP>> \o InstructionsHeading, <<"#", "#", "#", SP, "Soup">>,
     <<>>,
     <<"-", SP, "2", SP, "t", "b", "s", "p", SP, "oil">>,
     <<"*", SP, "U+00BD", SP, "c", SP, "oil">>,
     <<SP, "1", SP, "T", "s", "p", SP, "oil">>,
     <<"1", ".", SP, "Mix">>,
     <<SP, "-", SP, "-", SP, "Mix">>,
     <<"2", ")", "Mix">>}

FormatDocs == {Join(ls, <<NL>>) : ls \in SeqsUpTo(FormatLines, MaxFormatLines)}

InitFormat ==
    /\ markdown = <<>>
    /\ verbose = FALSE
    /\ pc = "idle"
    /\ recipe_data = <<>>
    /\ properties = <<>>
    /\ blocks = <<>>
    /\ calls = <<>>
    /\ responses = <<>>
    /\ stderr = <<>>
    /\ result = <<>>
    /\ config \in Configs
    /\ WebIdle
    /\ LambdaIdle
    /\ \E text \in FormatDocs : frames = <<NewFrame("format", text)>>

NextFormat == \E c \in DOMAIN frames : FormatCall(c) \/ FormatLine(c) \/ FormatReturn(c)

SpecFormat == InitFormat /\ [][NextFormat]_vars

\* the lines of the documents renumber_instructions is called with
RenumberLines ==
    {InstructionsHeading, <<"#", "#", "#", SP, "Soup">>, Rule, <<>>,
     <<"Mix">>, <<SP, "-", SP, "oil">>, <<"5", ".", SP, "Mix">>, <<"2", ")", "oil">>,
     <<"1", ".">>, <<"-", SP, "-", SP, "oil">>}

RenumberDocs == {Join(ls, <<NL>>) : ls \in SeqsUpTo(RenumberLines, MaxRenumberLines)}

InitRenumber ==
    /\ markdown = <<>>
    /\ verbose = FALSE
    /\ pc = "idle"
    /\ recipe_data = <<>>
    /\ properties = <<>>
    /\ blocks = <<>>
    /\ calls = <<>>
    /\ responses = <<>>
    /\ stderr = <<>>
    /\ result = <<>>
    /\ config = DEFAULT_CONFIG
    /\ WebIdle
    /\ LambdaIdle
    /\ \E text \in RenumberDocs : frames = <<NewFrame("renumber", text)>>

NextRenumber == \E c \in DOMAIN frames : RenumberCall(c) \/ RenumberLine(c) \/ RenumberReturn(c)

SpecRenumber == InitRenumber /\ [][NextRenumber]_vars

-----------------------------------------------------------------------------
(* Properties of RecipeFormatter.format, checked under SpecFormat *)

\* the lines of a string
LinesOf(text) == Split(text, NL)

\* a line a section test of format takes: its trimmed text starts with '#'
IsHashLine(l) == Strip(l) # <<>> /\ Strip(l)[1] = "#"

\* C12: format gives one output line per input line: while the loop runs the
\* lines emitted are as many as the lines read, the returned text has the
\* line count of the document, and a blank line or a '#' line of the
\* document is the line of the same index of the result.
C12_LineCountPreserved ==
    \A c \in DOMAIN frames :
        frames[c].op = "format" =>
            /\ frames[c].pc = "loop" => Len(frames[c].out_lines) = frames[c].i - 1
            /\ frames[c].pc = "done" =>
                 /\ Len(LinesOf(frames[c].result)) = Len(LinesOf(frames[c].markdown))
                 /\ \A k \in 1..Len(LinesOf(frames[c].markdown)) :
                       LET l == LinesOf(frames[c].markdown)[k]
                       IN  (Strip(l) = <<>> \/ IsHashLine(l)) => LinesOf(frames[c].result)[k] = l

\* a three-line document with a blank line, formatted into a different text
C12_Witness ==
    \E c \in DOMAIN frames :
        /\ frames[c].op = "format" /\ frames[c].pc = "done"
        /\ Len(LinesOf(frames[c].markdown)) = 3
        /\ \E k \in 1..3 : LinesOf(frames[c].markdown)[k] = <<>>
        /\ frames[c].result # frames[c].markdown

\* the step of format over one line: the call c has read the line `line` in
\* the frame f and has emitted `out`
FormatStepOf(c, P(_, _, _)) ==
    (/\ frames[c].op = "format"
     /\ frames[c].pc = "loop"
     /\ frames'[c].pc = "loop"
     /\ frames'[c].i = frames[c].i + 1)
    => P(frames[c], frames[c].lines[frames[c].i], frames'[c])

\* both normalizers, in the order of _format_ingredient_line
Normalized(x) == normalize_units(config, normalize_fractions(config, x))

C13_Step(f, line, g) ==
    (/\ config.enforce_ingredient_bullets
     /\ f.in_ingredients
     /\ Strip(line) # <<>>
     /\ ~IsHashLine(line))
    => LET out == g.out_lines[Len(g.out_lines)]
           s == LStrip(line)
       IN  /\ Len(g.out_lines) = Len(f.out_lines) + 1
           /\ LStrip(out) # <<>> /\ LStrip(out)[1] = "-"
           /\ s[1] = "-" => /\ out = Normalized(line)
                            /\ StartsWith(LStrip(out), <<"-", SP, "-">>)
                                  => StartsWith(s, <<"-", SP, "-">>)
           /\ s[1] = "*" => /\ out = Normalized(<<"-", SP>> \o LStrip(Tail(s)))
                            /\ ~StartsWith(out, <<"-", SP, SP>>)
           /\ s[1] \notin {"-", "*"} => out = Normalized(<<"-", SP>> \o s)

\* C13: with enforce_ingredient_bullets on, a non-blank line processed in the
\* ingredients state comes out starting with '-': a line that starts with '-'
\* keeps its bullet and gains none, a leading '*' is replaced by '- ', any
\* other line gets '- ' prepended.
C13_IngredientBullets == [][\A c \in DOMAIN frames : FormatStepOf(c, C13_Step)]_vars

\* an asterisk line and an unmarked line under the Ingredients heading, both
\* emitted with a dash
C13_Witness ==
    \E c \in DOMAIN frames :
        /\ frames[c].op = "format" /\ frames[c].pc = "done"
        /\ config.enforce_ingredient_bullets
        /\ Len(frames[c].lines) = 3
        /\ frames[c].lines[1] = IngredientsHeading
        /\ StartsWith(frames[c].lines[2], <<"*">>)
        /\ StartsWith(LStrip(frames[c].lines[3]), <<"1">>)
        /\ StartsWith(frames[c].out_lines[2], <<"-", SP, "1", "/", "2">>)
        /\ StartsWith(frames[c].out_lines[3], <<"-", SP, "1">>)

C18_Step(f, line, g) ==
    LET s == Strip(line)
        emitted_as_is == g.out_lines = Append(f.out_lines, line)
    IN  /\ ~(g.in_ingredients /\ g.in_instructions)
        /\ StartsWith(s, IngredientsHeading)
              => g.in_ingredients /\ ~g.in_instructions /\ emitted_as_is
        /\ (StartsWith(s, InstructionsHeading))
              => ~g.in_ingredients /\ g.in_instructions /\ emitted_as_is
        /\ (IsHashLine(line) /\ ~StartsWith(s, IngredientsHeading)
                             /\ ~StartsWith(s, InstructionsHeading))
              => ~g.in_ingredients /\ ~g.in_instructions /\ emitted_as_is
        /\ ~IsHashLine(line)
              => g.in_ingredients = f.in_ingredients /\ g.in_instructions = f.in_instructions

\* C18: each line leaves format in one of three section states: a line whose
\* trimmed text starts with '## Ingredients' enters the ingredients state,
\* one that starts with '## Instructions' the instructions state, any other
\* '#' line (a '###' line too) neither; such a line is emitted as it is; a
\* line without '#' keeps the state; the two flags are never both set.
C18_SectionStates == [][\A c \in DOMAIN frames : FormatStepOf(c, C18_Step)]_vars

\* a '###' line under the Ingredients heading has ended the ingredients state
C18_Witness ==
    \E c \in DOMAIN frames :
        /\ frames[c].op = "format" /\ frames[c].pc = "loop"
        /\ frames[c].i = 3
        /\ frames[c].lines[1] = IngredientsHeading
        /\ StartsWith(frames[c].lines[2], <<"#", "#", "#">>)
        /\ ~frames[c].in_ingredients /\ ~frames[c].in_instructions
        /\ frames[c].out_lines[2] = frames[c].lines[2]

\* the line starts with 'N.' or 'N)' followed by whitespace
HasOrdinal(s) ==
    \E d \in 1..Len(s) :
        /\ \A k \in 1..d : s[k] \in Digits
        /\ At(s, d + 1) \in {".", ")"}
        /\ IsSpace(At(s, d + 2))

C19_Step(f, line, g) ==
    (/\ config.enforce_numbered_steps
     /\ f.in_instructions
     /\ Strip(line) # <<>>
     /\ ~IsHashLine(line))
    => LET out == g.out_lines[Len(g.out_lines)]
           s == LStrip(line)
       IN  /\ Len(g.out_lines) = Len(f.out_lines) + 1
           /\ \E p \in 1..Len(line) : out = SubSeq(line, p, Len(line))
           /\ HasOrdinal(s) => out = s
           /\ (~HasOrdinal(s) /\ s[1] \in {"-", "*"}) => out = LStrip(Tail(s))
           /\ (~HasOrdinal(s) /\ s[1] \notin {"-", "*"}) => out = s

\* C19: with enforce_numbered_steps on, a non-blank line processed in the
\* instructions state is emitted left-trimmed and without one leading '-' or
\* '*' marker when it does not start with an ordinal, left-trimmed with its
\* ordinal when it does; the emitted text is an end part of the line, so no
\* number is ever put before it.
C19_NoNumbering == [][\A c \in DOMAIN frames : FormatStepOf(c, C19_Step)]_vars

\* a doubly bulleted line under the Instructions heading lost one bullet
C19_Witness ==
    \E c \in DOMAIN frames :
        /\ frames[c].op = "format" /\ frames[c].pc = "done"
        /\ config.enforce_numbered_steps
        /\ Len(frames[c].lines) = 3
        /\ StartsWith(Strip(frames[c].lines[1]), InstructionsHeading)
        /\ frames[c].lines[2] = <<SP, "-", SP, "-", SP, "Mix">>
        /\ frames[c].out_lines[2] = <<"-", SP, "Mix">>
        /\ frames[c].lines[3] = <<"1", ".", SP, "Mix">>
        /\ frames[c].out_lines[3] = <<"1", ".", SP, "Mix">>

-----------------------------------------------------------------------------
(* Properties of renumber_instructions, checked under SpecRenumber *)

\* the steps a call has emitted so far in the section n, in order
StepsOf(f, n) == SelectSeq(f.emitted, LAMBDA e : e.section = n)

\* the text of the output line of a step after its "N. "
AfterNumber(f, e) ==
    SubSeq(f.out_lines[e.at], Len(IntToStr(e.number)) + 3, Len(f.out_lines[e.at]))

\* C14: in each Instructions section the emitted steps carry 1, 2, ..., k in
\* the order of their input lines, whatever marker the lines carried: the
\* j-th step of a section is the output line "j. " followed by text of its
\* input line, and the first step after every '## Instructions' heading is 1.
C14_ConsecutiveNumbers ==
    \A c \in DOMAIN frames :
        frames[c].op = "renumber" =>
            LET f == frames[c]
            IN  /\ \A n \in 1..f.sections : \A j \in 1..Len(StepsOf(f, n)) :
                      LET e == StepsOf(f, n)[j]
                      IN  /\ e.number = j
                          /\ StartsWith(f.out_lines[e.at], IntToStr(j) \o <<".", SP>>)
                          /\ AfterNumber(f, e) # <<>>
                          /\ \E p \in 1..Len(f.lines[e.source]) :
                                \E q \in p..Len(f.lines[e.source]) :
                                    AfterNumber(f, e) = SubSeq(f.lines[e.source], p, q)
                          /\ j > 1 => /\ StepsOf(f, n)[j - 1].source < e.source
                                      /\ StepsOf(f, n)[j - 1].at < e.at
                /\ \A j \in 1..Len(f.emitted) : f.emitted[j].section \in 1..f.sections
                /\ \A j \in 2..Len(f.emitted) : f.emitted[j - 1].section <= f.emitted[j].section

\* three steps written with '5.', with a dash and with no marker come out as 1., 2., 3.
C14_Witness ==
    \E c \in DOMAIN frames :
        LET f == frames[c]
        IN  /\ f.op = "renumber" /\ f.pc = "done"
            /\ Len(StepsOf(f, 1)) = 3
            /\ \E j \in 1..3 : StartsWith(f.lines[StepsOf(f, 1)[j].source], <<"5", ".">>)
            /\ \E j \in 1..3 : StartsWith(LStrip(f.lines[StepsOf(f, 1)[j].source]), <<"-">>)
            /\ \E j \in 1..3 : f.lines[StepsOf(f, 1)[j].source] = <<"Mix">>
            /\ StartsWith(f.out_lines[StepsOf(f, 1)[3].at], <<"3", ".", SP>>)

\* C20: between two consecutive steps of a section the output has exactly one
\* line, a blank one; the first step of a section has no blank line put
\* before it.
C20_OneBlankBetweenSteps ==
    \A c \in DOMAIN frames :
        (frames[c].op = "renumber" /\ frames[c].pc = "done") =>
            LET f == frames[c]
            IN  \A n \in 1..f.sections : \A j \in 2..Len(StepsOf(f, n)) :
                    /\ StepsOf(f, n)[j].at = StepsOf(f, n)[j - 1].at + 2
                    /\ f.out_lines[StepsOf(f, n)[j].at - 1] = <<>>

-----------------------------------------------------------------------------
(* The normalizer calls *)

\* _normalize_units is called on the text of the frame
NormalizeUnitsCall(c) ==
    /\ frames[c].op = "normalize_units"
    /\ frames[c].pc = "start"
    /\ frames' = [frames EXCEPT ![c].result = normalize_units(config, frames[c].markdown),
                                ![c].pc = "done"]
    /\ UNCHANGED <<markdown, verbose, pc, recipe_data, properties, blocks, calls,
                   responses, stderr, result, config, webVars, lambdaVars>>

\* the quantity tokens: a digit, then digits, "/" and "."
QuantityChars == {"0", "1", "2", "/", "."}
QuantityTokens ==
    {q \in SeqsUpTo(QuantityChars, MaxQuantityLen) : q # <<>> /\ q[1] \in Digits}

\* the units as they are written in the text, with their full names
WrittenUnits ==
    {[written |-> <<"t", "b", "s", "p">>, singular |-> <<"tablespoon">>, plural |-> <<"tablespoons">>],
     [written |-> <<"T", "S", "P">>, singular |-> <<"teaspoon">>, plural |-> <<"teaspoons">>],
     [written |-> <<"o", "z", "s">>, singular |-> <<"ounce">>, plural |-> <<"ounces">>],
     [written |-> <<"f">>, singular |-> <<"U+00B0", "F">>, plural |-> <<"U+00B0", "F">>]}

UnitTexts ==
    {q \o sp \o u.written \o <<SP, "oil">> :
        q \in QuantityTokens, sp \in {<<>>, <<SP>>}, u \in WrittenUnits}

InitUnits ==
    /\ markdown = <<>>
    /\ verbose = FALSE
    /\ pc = "idle"
    /\ recipe_data = <<>>
    /\ properties = <<>>
    /\ blocks = <<>>
    /\ calls = <<>>
    /\ responses = <<>>
    /\ stderr = <<>>
    /\ result = <<>>
    /\ config \in {FormattingConfig(TRUE, TRUE, p) : p \in BOOLEAN}
    /\ WebIdle
    /\ LambdaIdle
    /\ \E text \in UnitTexts : frames = <<NewFrame("normalize_units", text)>>

NextUnits == \E c \in DOMAIN frames : NormalizeUnitsCall(c)

SpecUnits == InitUnits /\ [][NextUnits]_vars

-----------------------------------------------------------------------------
(* Properties of _normalize_units, checked under SpecUnits *)

RECURSIVE Pow10(_)
Pow10(n) == IF n = 0 THEN 1 ELSE 10 * Pow10(n - 1)

\* the number a quantity token stands for, as <<numerator, denominator>>: an
\* integer n, a decimal a.b, a fraction a/b with b # 0; <<0, 0>> for a token
\* that is none of these
QuantityValue(q) ==
    LET slash == {p \in 1..Len(q) : q[p] = "/"}
        dot   == {p \in 1..Len(q) : q[p] = "."}
        left(p)  == SubSeq(q, 1, p - 1)
        right(p) == SubSeq(q, p + 1, Len(q))
    IN  IF slash = {} /\ dot = {} THEN <<IntValue(q), 1>>
        ELSE IF slash = {} /\ Cardinality(dot) = 1
        THEN LET p == Min(dot)
             IN  <<IntValue(left(p)) * Pow10(Len(right(p))) + IntValue(right(p)),
                   Pow10(Len(right(p)))>>
        ELSE IF dot = {} /\ Cardinality(slash) = 1
        THEN LET p == Min(slash)
             IN  IF right(p) # <<>> /\ IntValue(right(p)) # 0
                 THEN <<IntValue(left(p)), IntValue(right(p))>>
                 ELSE <<0, 0>>
        ELSE <<0, 0>>

Parsed(q) == QuantityValue(q)[2] > 0
AboveOne(q) == Parsed(q) /\ QuantityValue(q)[1] > QuantityValue(q)[2]

\* C15: with pluralize_units on, the text "<quantity> <unit> oil" comes out
\* with the plural of the unit exactly when the quantity parses to a number
\* above 1 and the unit has a plural; a quantity of 1 or less, and a token
\* that does not parse, come out with the singular, and the call returns.
C15_PluralAboveOne ==
    \A c \in DOMAIN frames :
        (frames[c].op = "normalize_units" /\ frames[c].pc = "done" /\ config.pluralize_units) =>
            LET text == frames[c].markdown
                q == SubSeq(text, 1, RunIn(text, 1, QuantityChars))
            IN  /\ q \in QuantityTokens
                /\ \E sp \in {<<>>, <<SP>>} : \E u \in WrittenUnits :
                      text = q \o sp \o u.written \o <<SP, "oil">>
                /\ \A sp \in {<<>>, <<SP>>} : \A u \in WrittenUnits :
                      text = q \o sp \o u.written \o <<SP, "oil">> =>
                          frames[c].result =
                              q \o <<SP>> \o (IF AboveOne(q) THEN u.plural ELSE u.singular)
                                \o <<SP, "oil">>

\* '2/1 tbsp oil' has come out as '2/1 tablespoons oil'
C15_Witness ==
    \E c \in DOMAIN frames :
        /\ frames[c].op = "normalize_units" /\ frames[c].pc = "done" /\ config.pluralize_units
        /\ StartsWith(frames[c].markdown, <<"2", "/", "1", SP, "t">>)
        /\ frames[c].result = <<"2", "/", "1", SP, "tablespoons", SP, "oil">>

-----------------------------------------------------------------------------
(* _normalize_fractions applied again to its own result *)

\* _normalize_fractions is called on the text of the frame, and then on what
\* the call before returned; out_lines keeps what each call returned
NormalizeFractionsCall(c) ==
    /\ frames[c].op = "normalize_fractions"
    /\ frames[c].pc \in {"start", "loop"}
    /\ Len(frames[c].out_lines) < Passes
    /\ LET f == frames[c]
           text == IF f.out_lines = <<>> THEN f.markdown ELSE f.out_lines[Len(f.out_lines)]
           returned == normalize_fractions(config, text)
       IN  frames' = [frames EXCEPT ![c].out_lines = Append(f.out_lines, returned),
                                    ![c].result = returned,
                                    ![c].pc = IF Len(f.out_lines) + 1 = Passes
                                              THEN "done" ELSE "loop"]
    /\ UNCHANGED <<markdown, verbose, pc, recipe_data, properties, blocks, calls,
                   responses, stderr, result, config, webVars, lambdaVars>>

\* the pieces a text with fractions is made of: keys of the dict and text around them
FractionPieces ==
    {<<"U+00BD">>, <<"U+2152">>, <<"0", ".", "7", "5">>, <<"0", ".", "3", "3">>,
     <<"0">>, <<".">>, <<"3">>, <<"5">>, <<SP>>, <<"oil">>}

RECURSIVE Concat(_)
Concat(parts) == IF parts = <<>> THEN <<>> ELSE parts[1] \o Concat(Tail(parts))

FractionTexts == {Concat(ps) : ps \in SeqsUpTo(FractionPieces, MaxPieces)}

InitFractions ==
    /\ markdown = <<>>
    /\ verbose = FALSE
    /\ pc = "idle"
    /\ recipe_data = <<>>
    /\ properties = <<>>
    /\ blocks = <<>>
    /\ calls = <<>>
    /\ responses = <<>>
    /\ stderr = <<>>
    /\ result = <<>>
    /\ config = DEFAULT_CONFIG
    /\ WebIdle
    /\ LambdaIdle
    /\ \E text \in FractionTexts : frames = <<NewFrame("normalize_fractions", text)>>

NextFractions == \E c \in DOMAIN frames : NormalizeFractionsCall(c)

SpecFractions == InitFractions /\ [][NextFractions]_vars

\* some key of fraction_normalizations occurs in the text
HasFractionKey(text) ==
    \E k \in 1..Len(config.fraction_normalizations) :
        Contains(text, config.fraction_normalizations[k][1])

\* C16: what _normalize_fractions returns holds no key of the dict, and the
\* second application returns what the first returned.
C16_FractionsIdempotent ==
    \A c \in DOMAIN frames :
        frames[c].op = "normalize_fractions" =>
            /\ Len(frames[c].out_lines) >= 1 => ~HasFractionKey(frames[c].out_lines[1])
            /\ Len(frames[c].out_lines) >= 2 => frames[c].out_lines[2] = frames[c].out_lines[1]

-----------------------------------------------------------------------------
(* Concurrent conversions on formatters that share DEFAULT_CONFIG *)

\* the lines of the documents of the first conversion
ConcurrentLines ==
    {IngredientsHeading, InstructionsHeading,
     <<"2", SP, "t", "b", "s", "p", SP, "oil">>, <<"-", SP, "Mix">>}

ConcurrentDocs == {Join(ls, <<NL>>) : ls \in SeqsUpTo(ConcurrentLines, MaxConcurrentLines)}

\* the documents of the second conversion
OtherDocs ==
    {Join(<<InstructionsHeading, <<"-", SP, "Mix">>, <<"Mix">>>>, <<NL>>),
     Join(<<IngredientsHeading, <<"Mix">>, InstructionsHeading>>, <<NL>>)}

InitConcurrent ==
    /\ markdown = <<>>
    /\ verbose = FALSE
    /\ pc = "idle"
    /\ recipe_data = <<>>
    /\ properties = <<>>
    /\ blocks = <<>>
    /\ calls = <<>>
    /\ responses = <<>>
    /\ stderr = <<>>
    /\ result = <<>>
    /\ config = DEFAULT_CONFIG
    /\ WebIdle
    /\ LambdaIdle
    /\ \E op1 \in {"format", "renumber"} : \E op2 \in {"format", "renumber"} :
       \E text1 \in ConcurrentDocs : \E text2 \in OtherDocs :
           frames = <<NewFrame(op1, text1), NewFrame(op2, text2)>>

\* the steps of the two calls in any order
NextConcurrent ==
    \E c \in DOMAIN frames :
        \/ FormatCall(c) \/ FormatLine(c) \/ FormatReturn(c)
        \/ RenumberCall(c) \/ RenumberLine(c) \/ RenumberReturn(c)

SpecConcurrent == InitConcurrent /\ [][NextConcurrent]_vars

\* what the call of the frame returns when it runs alone
Alone(f) ==
    IF f.op = "format" THEN format(DEFAULT_CONFIG, f.markdown)
    ELSE renumber_instructions(f.markdown)

\* C17: however the steps of two conversions interleave, the shared
\* configuration stays what it was and each call returns what it returns
\* when it runs alone.
C17_ConversionsIndependent ==
    /\ config = DEFAULT_CONFIG
    /\ \A c \in DOMAIN frames : frames[c].pc = "done" => frames[c].result = Alone(frames[c])

\* the first call has returned a changed document while the second one is in
\* the middle of its loop, in another section state
C17_Witness ==
    /\ Len(frames) = 2
    /\ frames[1].pc = "done"
    /\ frames[1].result # frames[1].markdown
    /\ frames[2].pc = "loop"
    /\ frames[2].i = 2
    /\ frames[1].in_ingredients # frames[2].in_ingredients

-----------------------------------------------------------------------------
(* Lines outside the instructions of renumber_instructions, checked under SpecRenumber *)

\* the step of renumber_instructions over one line: the call c has read the
\* line `line` in the frame f and has left the frame g
RenumberStepOf(c, P(_, _, _)) ==
    (/\ frames[c].op = "renumber"
     /\ frames[c].pc = "loop"
     /\ frames'[c].pc = "loop"
     /\ frames'[c].i = frames[c].i + 1)
    => P(frames[c], frames[c].lines[frames[c].i], frames'[c])

\* a bare horizontal rule
IsRuleLine(l) == Strip(l) = <<"-", "-", "-">>

\* a line whose trimmed text starts with '## Instructions'
IsInstructionsLine(l) == StartsWith(Strip(l), InstructionsHeading)

C21_Step(f, line, g) ==
    LET verbatim == /\ g.out_lines = Append(f.out_lines, line)
                    /\ g.step_number = f.step_number
                    /\ g.emitted = f.emitted
    IN  /\ ((IsHashLine(line) /\ ~IsInstructionsLine(line)) \/ IsRuleLine(line))
              => ~g.in_instructions /\ verbatim
        /\ (~f.in_instructions /\ ~IsInstructionsLine(line))
              => ~g.in_instructions /\ verbatim
        /\ IsInstructionsLine(line) => g.out_lines = Append(f.out_lines, line)

\* C21: in renumber_instructions a '#' line other than '## Instructions' and a
\* bare '---' line end the instructions mode and are emitted as they are; a
\* line read outside the instructions mode (a blank one too) is appended to
\* the output as it is, the step counter untouched, and the mode stays off
\* until a '## Instructions' line is read.
C21_OutsideVerbatim == [][\A c \in DOMAIN frames : RenumberStepOf(c, C21_Step)]_vars

\* a numbered line and a blank line after the rule that ended the
\* instructions have come out as they were, after a step that was numbered
C21_Witness ==
    \E c \in DOMAIN frames :
        LET f == frames[c]
        IN  /\ f.op = "renumber" /\ f.pc = "done"
            /\ f.lines = <<InstructionsHeading, <<"Mix">>, Rule, <<"5", ".", SP, "Mix">>>>
            /\ f.out_lines = <<InstructionsHeading, <<"1", ".", SP, "Mix">>, Rule,
                               <<"5", ".", SP, "Mix">>>>

\* content that begins with a dash bullet marker
BeginsWithDash(content) == content # <<>> /\ content[1] = "-"

C22_Step(f, line, g) ==
    (f.in_instructions /\ Strip(line) # <<>> /\ ~IsHashLine(line) /\ ~IsRuleLine(line))
    => \/ /\ g.out_lines = f.out_lines
          /\ g.step_number = f.step_number
       \/ /\ g.step_number = f.step_number + 1
          /\ LET content == AfterNumber(g, g.emitted[Len(g.emitted)])
             IN  content # <<>> /\ ~BeginsWithDash(content)

\* C22: a non-blank line read in the instructions mode is either dropped (no
\* output line, the step counter as it was) or emitted as a step whose
\* content is not empty and does not begin with a '-' bullet marker.
C22_NoMarkerLeft == [][\A c \in DOMAIN frames : RenumberStepOf(c, C22_Step)]_vars

\* C27: renumber_instructions applied to what it returned returns the same text.
C27_RenumberIdempotent ==
    \A c \in DOMAIN frames :
        (frames[c].op = "renumber" /\ frames[c].pc = "done") =>
            renumber_instructions(frames[c].result) = frames[c].result

-----------------------------------------------------------------------------
(* The ingredients table of the page, checked under SpecBuild *)

\* the trimmed lines of the ingredients body
IngredientBodyLines ==
    LET ls == Split(recipe_data.ingredients, NL)
    IN  [k \in 1..Len(ls) |-> Strip(ls[k])]

\* a table line, a header row that names Ingredient, a separator row
IsTableLine(l) == StartsWith(l, <<"|">>)
IsHeaderRow(l) == IsTableLine(l) /\ HasToken(l, "Ingredient")
IsSeparatorRow(l) == IsTableLine(l) /\ \A k \in 1..Len(l) : l[k] \in {"|", "-", SP}

\* the indices of the data rows of the markdown table whose header row is the
\* line h: the table lines after the header and its separator row, up to the
\* first line that is not a table line
DataRows(lines, h) ==
    LET first == IF h + 1 <= Len(lines) /\ IsSeparatorRow(lines[h + 1]) THEN h + 2 ELSE h + 1
    IN  {k \in first..Len(lines) : \A j \in first..k : IsTableLine(lines[j])}

\* C24: when the ingredients body has a table (a header row that names
\* Ingredient and at least one data row), the page has a table block of width
\* 3 whose rows have 3 cells each and are the header row and one row per data
\* row of the markdown table.
C24_TableOfDataRows ==
    pc = "built" =>
        LET lines == IngredientBodyLines
            headers == {k \in 1..Len(lines) : IsHeaderRow(lines[k])}
        IN  headers # {} =>
                LET rows == DataRows(lines, Min(headers))
                IN  rows # {} =>
                        \E t \in BlocksOf("table") :
                            /\ blocks[t].table_width = 3
                            /\ \A r \in 1..Len(blocks[t].children) :
                                  Len(blocks[t].children[r]) = 3
                            /\ Len(blocks[t].children) = 1 + Cardinality(rows)

-----------------------------------------------------------------------------
(* Every key of unit_normalizations, checked under SpecUnitKeys *)

\* str.upper() on the letters a unit is written with
Upper(c) ==
    IF \E u \in DOMAIN LowerCase : LowerCase[u] = c
    THEN CHOOSE u \in DOMAIN LowerCase : LowerCase[u] = c
    ELSE c
UpperAll(s) == [i \in 1..Len(s) |-> Upper(s[i])]

\* the keys of unit_normalizations
UnitKeys == {DefaultUnitNormalizations[k][1] : k \in 1..Len(DefaultUnitNormalizations)}

\* a key as it is, in lower case and in upper case
LetterCases(key) == {key, LowerAll(key), UpperAll(key)}

KeyQuantities == {<<"1">>, <<"2">>, <<"1", "/", "2">>}

\* '<quantity> <key> oil' for every key in every letter case
UnitKeyTexts ==
    {q \o sp \o w \o <<SP, "oil">> :
        q \in KeyQuantities, sp \in {<<>>, <<SP>>},
        w \in UNION {LetterCases(key) : key \in UnitKeys}}

InitUnitKeys ==
    /\ markdown = <<>>
    /\ verbose = FALSE
    /\ pc = "idle"
    /\ recipe_data = <<>>
    /\ properties = <<>>
    /\ blocks = <<>>
    /\ calls = <<>>
    /\ responses = <<>>
    /\ stderr = <<>>
    /\ result = <<>>
    /\ config \in {FormattingConfig(TRUE, TRUE, p) : p \in BOOLEAN}
    /\ WebIdle
    /\ LambdaIdle
    /\ \E text \in UnitKeyTexts : frames = <<NewFrame("normalize_units", text)>>

NextUnitKeys == \E c \in DOMAIN frames : NormalizeUnitsCall(c)

SpecUnitKeys == InitUnitKeys /\ [][NextUnitKeys]_vars

\* the canonical form the map registers for a key, and its plural
Registered(key) ==
    LET d == config.unit_normalizations
    IN  d[CHOOSE k \in 1..Len(d) : d[k][1] = key][2]
PluralOf(unit) == DictGet(config.unit_plurals, unit, unit)

\* C23: '<quantity> <unit> oil', with the unit a key of unit_normalizations in
\* any letter case, comes out as the quantity as written, one blank and the
\* canonical form the map registers for that key (or the plural of that form).
C23_CanonicalForm ==
    \A c \in DOMAIN frames :
        (frames[c].op = "normalize_units" /\ frames[c].pc = "done") =>
            \A q \in KeyQuantities : \A sp \in {<<>>, <<SP>>} : \A key \in UnitKeys :
                \A w \in LetterCases(key) :
                    frames[c].markdown = q \o sp \o w \o <<SP, "oil">> =>
                        frames[c].result \in
                            {q \o <<SP>> \o form \o <<SP, "oil">> :
                                form \in {Registered(key), PluralOf(Registered(key))}}

-----------------------------------------------------------------------------
(* _validate_print_url called on its own, checked under SpecValidate *)

InitValidate ==
    /\ markdown = <<>>
    /\ verbose = FALSE
    /\ pc = "idle"
    /\ recipe_data = <<>>
    /\ properties = <<>>
    /\ blocks = <<>>
    /\ calls = <<>>
    /\ responses = <<>>
    /\ stderr = <<>>
    /\ result = <<>>
    /\ config = DEFAULT_CONFIG
    /\ frames = <<>>
    /\ print_url_cache = <<>>
    /\ extractor = [pc |-> "idle"]
    /\ outcomes = <<>>
    /\ \E retry \in BOOLEAN : validation = NewValidation(<<"soup">>, retry)
    /\ LambdaIdle

NextValidate == HeadAnswers \/ GetAnswers

SpecValidate == InitValidate /\ [][NextValidate]_vars

\* the HEAD requests of the call, in order
HeadRequests == SelectSeq(validation.requests, LAMBDA q : q.method = "HEAD")

\* the requests of one attempt
RequestsOf(attempt) == SelectSeq(validation.requests, LAMBDA q : q.attempt = attempt)

\* the attempt ended with a timeout, a connection error or a 429/503 response
Retriable(attempt) ==
    LET last == RequestsOf(attempt)[Len(RequestsOf(attempt))].outcome
    IN  \/ last.kind = "raise" /\ last.exception \in {"Timeout", "ConnectionError"}
        \/ last.kind = "response" /\ last.status_code \in {429, 503}

\* C26: _validate_print_url makes at most two HEAD requests with retry and at
\* most one without; the second one only after a timeout, a connection error
\* or a 429/503 response in the first attempt; once the attempts are used up,
\* and after any other request error, it returns (False, 0) and does not
\* raise; it returns True only after a HEAD response of 200.
C26_BoundedRetry ==
    validation.pc # "idle" =>
        LET n == Len(HeadRequests)
            last == validation.requests[Len(validation.requests)].outcome
        IN  /\ n <= (IF validation.retry THEN 2 ELSE 1)
            /\ n = 2 => Retriable(0)
            /\ (validation.pc \in {"done", "raised"} /\ last.kind = "raise")
                  => validation.pc = "done" /\ validation.result = <<FALSE, 0>>
            /\ (validation.pc \in {"done", "raised"} /\ last.kind = "response"
                   /\ last.status_code \in {429, 503})
                  => validation.pc = "done" /\ validation.result = <<FALSE, 0>>
            /\ (validation.pc = "done" /\ validation.result[1])
                  => HeadRequests[n].outcome.status_code = 200

\* a 429 answer, then a second HEAD answered 200 with a content length of 1025
C26_Witness ==
    /\ validation.pc = "done"
    /\ validation.retry
    /\ Len(HeadRequests) = 2
    /\ HeadRequests[1].outcome.status_code = 429
    /\ validation.result = <<TRUE, 1025>>

-----------------------------------------------------------------------------
(* find_best_url calls on one extractor, checked under SpecExtractor *)

RecipeUrls ==
    {<<"https", "://", "a.com", "/", "soup">>,
     <<"https", "://", "a.com", "/", "2024", "/">>,
     <<"https", "://", "b.com", "/", "soup", "?", "x">>}

InitExtractor ==
    /\ markdown = <<>>
    /\ verbose = FALSE
    /\ pc = "idle"
    /\ recipe_data = <<>>
    /\ properties = <<>>
    /\ blocks = <<>>
    /\ calls = <<>>
    /\ responses = <<>>
    /\ stderr = <<>>
    /\ result = <<>>
    /\ config = DEFAULT_CONFIG
    /\ frames = <<>>
    /\ print_url_cache = <<>>
    /\ \E client \in BOOLEAN : extractor = IdleExtractor(client)
    /\ outcomes = <<>>
    /\ validation = [pc |-> "idle"]
    /\ LambdaIdle

NextExtractor ==
    \/ \E url \in RecipeUrls : FindBestUrl(url)
    \/ CachedValidated
    \/ PatternStep
    \/ PatternValidated
    \/ LlmGet
    \/ LlmAnswer
    \/ LlmValidated
    \/ HeadAnswers
    \/ GetAnswers

SpecExtractor == InitExtractor /\ [][NextExtractor]_vars

\* the call k and the next one are for the same domain
SameDomainNext(k) == outcomes[k + 1].domain = outcomes[k].domain

\* a call in progress that found its domain cached and is past the cached candidate
PastStaleEntry ==
    /\ extractor.pc \in {"patterns", "validating_pattern", "llm_get", "llm_ask", "validating_llm"}
    /\ extractor.cache_hit

-----------------------------------------------------------------------------
(* lambda_handler: one invocation *)

MailAB == <<"a", "@", "b", ".", "c">>
MailABUpper == <<"A", "@", "B", ".", "c">>
MailGB == <<"g", "@", "b", ".", "c">>
MailAG == <<"a", "@", "g", ".", "c">>
MailSub == <<"a", "@", "g", ".", "b", ".", "c">>

\* From headers: a display name with the address in angle brackets, or the
\* bare address
FromHeaders ==
    {MailABUpper, MailSub}
    \cup {<<"Al", SP, "<">> \o m \o <<">">> : m \in {MailAB, MailGB, MailAG}}

\* values of the whitelist secret
Whitelists ==
    {MailAB,
     <<"A", "@", "b", ".", "c", ",", SP, "*", "@", "g", ".", "c">>,
     <<"*", "@", "B", ".", "c">>,
     <<"g", "@", "g", ".", "c", ",">>}

\* parts of a message, as msg.walk() yields them
MessageParts ==
    {[maintype |-> "image", filename |-> <<"a.jpg">>],
     [maintype |-> "image", filename |-> <<>>],
     [maintype |-> "text", filename |-> <<>>]}

UrlSoup == <<"https", "://", "a.com", "/", "soup">>
UrlStew == <<"http", "://", "b.com", "/", "stew">>

\* plain-text bodies
EmailBodies ==
    {<<>>,
     <<"oil", SP>> \o UrlSoup,
     UrlSoup \o <<NL>> \o UrlStew,
     <<"<">> \o UrlSoup \o <<">", SP>> \o UrlSoup \o <<SP, "https", "://">>}

\* values of DELETE_EMAILS_AFTER_PROCESSING; <<>> when it is not set
DeleteSettings == {<<>>, <<"T", "r", "u", "e">>, <<"f", "a", "l", "s", "e">>}

InitLambda ==
    /\ markdown = <<>>
    /\ verbose = FALSE
    /\ pc = "idle"
    /\ recipe_data = <<>>
    /\ properties = <<>>
    /\ blocks = <<>>
    /\ calls = <<>>
    /\ responses = <<>>
    /\ stderr = <<>>
    /\ result = <<>>
    /\ config = DEFAULT_CONFIG
    /\ frames = <<>>
    /\ WebIdle
    /\ \E from_header \in FromHeaders, whitelist \in Whitelists, body \in EmailBodies,
          delete_env \in DeleteSettings, n \in 0..MaxParts :
          \E parts \in [1..n -> MessageParts] :
             handler = NewInvocation(from_header, whitelist, parts, body, delete_env)
    /\ effects = <<>>

NextLambda ==
    \/ Invoke
    \/ ProcessAttachment
    \/ AttachmentsDone
    \/ ProcessUrl
    \/ Cleanup

SpecLambda == InitLambda /\ [][NextLambda]_vars

\* the calls made so far that process, publish or delete
ProcessingCalls ==
    {k \in 1..Len(effects) : effects[k].call # "get_object"}

\* the email was read and the sender address extracted from it
SenderExtracted ==
    /\ handler.pc \notin {"idle", "start"}
    /\ handler.aborted \notin {"secrets", "parse"}

\* the part of an address after its last @
DomainOf(address) ==
    LET ats == {k \in 1..Len(address) : address[k] = "@"}
    IN  SubSeq(address, Max(ats) + 1, Len(address))

\* the address equals an entry of the comma-separated whitelist, letter case
\* aside, or an entry *@domain names its domain
Listed(address, whitelist) ==
    LET entries == Split(whitelist, ",")
    IN  \E k \in 1..Len(entries) :
           LET entry == Strip(entries[k])
           IN  \/ LowerAll(entry) = LowerAll(address)
               \/ /\ StartsWith(entry, <<"*", "@">>)
                  /\ \E j \in 1..Len(address) : address[j] = "@"
                  /\ LowerAll(SubSeq(entry, 3, Len(entry))) = LowerAll(DomainOf(address))

\* C28: when the extracted sender address neither equals a whitelist entry,
\* letter case aside, nor matches a *@domain entry, lambda_handler returns
\* status 403 and has called neither the extraction oracle nor the publisher
\* for any item, nor deleted the email
C28_NotWhitelistedForbidden ==
    (SenderExtracted /\ ~Listed(handler.sender_email, handler.whitelist))
        => /\ handler.pc = "returned"
           /\ handler.response.statusCode = 403
           /\ ProcessingCalls = {}

\* a sender of another domain than the wildcard entry's, with an image
\* attached and a URL in the body, was refused
C28_Witness ==
    /\ handler.pc = "returned"
    /\ SenderExtracted
    /\ ~Listed(handler.sender_email, handler.whitelist)
    /\ Contains(handler.whitelist, <<"*", "@">>)
    /\ \E k \in 1..Len(handler.parts) : handler.parts[k].maintype = "image"
    /\ Contains(handler.body, <<"://", "a.com">>)
    /\ handler.response.statusCode = 403

\* the items of the invocation: the image attachments, then the URLs
Items ==
    [k \in 1..Len(handler.attachments) |-> [type |-> "image", source |-> handler.attachments[k]]]
    \o [k \in 1..Len(handler.urls) |-> [type |-> "url", source |-> handler.urls[k]]]

\* the items attempted so far, in the order of the attempts
Attempts ==
    SelectSeq(effects, LAMBDA e : e.call \in {"process_recipe_from_attachment",
                                              "process_recipe_from_url"})
AttemptedItems ==
    [k \in 1..Len(Attempts) |->
        [type |-> IF Attempts[k].call = "process_recipe_from_attachment" THEN "image" ELSE "url",
         source |-> Attempts[k].source]]

\* the sender passed the whitelist test and the items were extracted
Processing ==
    /\ handler.pc \in {"attachments", "urls", "returned"}
    /\ handler.aborted = "none"
    /\ handler.pc = "returned" => handler.response.statusCode # 403

\* C29: for a whitelisted sender the attachments and then the URLs are
\* attempted once each in that order, a failed item gives an 'error' result
\* and the next items are still attempted, and the 200 response has one
\* result per item and the number of succeeded items as its success count
C29_EveryItemOnce ==
    Processing
        => /\ Len(AttemptedItems) <= Len(Items)
           /\ AttemptedItems = SubSeq(Items, 1, Len(AttemptedItems))
           /\ Len(handler.results) = Len(Attempts)
           /\ \A k \in 1..Len(Attempts) :
                 /\ handler.results[k].type = Items[k].type
                 /\ handler.results[k].source = Items[k].source
                 /\ handler.results[k].status =
                       IF Attempts[k].raised THEN "error" ELSE "success"
           /\ handler.pc = "attachments" => Len(Attempts) = handler.i - 1
           /\ handler.pc = "urls" => Len(Attempts) = Len(handler.attachments) + handler.i - 1
           /\ handler.pc = "returned" => AttemptedItems = Items
           /\ (handler.pc = "returned" /\ handler.response.statusCode = 200)
                 => /\ handler.response.results = handler.results
                    /\ Len(handler.response.results) = Len(Items)
                    /\ handler.response.message =
                          <<Cardinality({k \in 1..Len(Attempts) : ~Attempts[k].raised}),
                            Len(Items)>>

\* an attachment failed, the URL after it succeeded, and the response counts
\* one success out of two
C29_Witness ==
    /\ handler.pc = "returned"
    /\ handler.aborted = "none"
    /\ handler.response.statusCode = 200
    /\ Len(handler.attachments) = 1
    /\ Len(handler.urls) = 1
    /\ handler.results[1].status = "error"
    /\ handler.results[2].status = "success"
    /\ handler.response.message = <<1, 2>>

\* the delete_object calls made so far
Deletes == {k \in 1..Len(effects) : effects[k].call = "delete_object"}

\* C30: the email is deleted only after every attachment and URL was
\* attempted, at most once, and when deletion is enabled also if items
\* failed; it is not deleted on the 403 path nor when the handler aborts
\* before the items are processed
C30_DeleteAfterItems ==
    /\ Cardinality(Deletes) <= 1
    /\ \A d \in Deletes :
          /\ Processing
          /\ d = Len(effects)
          /\ AttemptedItems = Items
    /\ handler.pc = "returned"
          => /\ handler.response.statusCode = 403 => Deletes = {}
             /\ handler.aborted # "none" => Deletes = {}
             /\ (Processing /\ DeleteEnabled(handler.delete_env)) => Deletes # {}
             /\ (Processing /\ handler.response.statusCode = 200
                            /\ DeleteEnabled(handler.delete_env))
                   => \E d \in Deletes : ~effects[d].raised

\* every item failed and the email was deleted all the same
C30_Witness ==
    /\ handler.pc = "returned"
    /\ handler.response.statusCode = 200
    /\ Len(handler.results) = 2
    /\ \A k \in 1..Len(handler.results) : handler.results[k].status = "error"
    /\ Cardinality(Deletes) = 1

=============================================================================
